---- MODULE Spec2Model ----
(***************************************************************************)
(* Model of @klogt/intercept: the process-wide store, the handler registry *)
(* and matcher of core/server, the fetch adapter and the intercept facade. *)
(*                                                                         *)
(* Strings of the program are modelled structurally:                       *)
(*   - a URL or path pattern string is a record                            *)
(*       [scheme, host, segs, query]                                       *)
(*     scheme = "" for a relative pattern; segs is the text after the      *)
(*     leading "/" split at every "/" (so "/a/" is <<"a", "">>, "/" is     *)
(*     <<"">> and no path at all is << >>); query is the text after "?".   *)
(*   - a function value (a fetch implementation) is a record [k, id].      *)
(***************************************************************************)
EXTENDS Integers, Sequences, FiniteSets, TLC

VARIABLES
    handlers,              \* _handlers: the route stack of this module
    adapters,              \* _adapters: adapters attached through this module
    fetchOriginal,         \* per fetch adapter object: its closure variable `original`
    globalFetch,           \* globalThis.fetch
    config,                \* store.config.onUnhandledRequest
    initialConfig,         \* initialState.config.onUnhandledRequest
    configIsInitial,       \* store.config and initialState.config are one object
    defaultStrategy,       \* value of getDefaultOnUnhandledRequest() at module load
    listening,             \* store.listening
    origin,                \* store.origin
    originalFetch,         \* store.originalFetch
    fetchAdapterAttached,  \* store.fetchAdapterAttached
    req,                   \* the request in flight through globalThis.fetch, and its outcome
    thrown,                \* error thrown synchronously by the last call of the API
    sessionFetch,          \* history: globalThis.fetch right before the session's first listen
    instanceAdapter,       \* instance.defaults.adapter of the axios instance
    originalAdapter,       \* per axios adapter object: its closure variable `originalAdapter`
    listenCalls,           \* history: calls of listen in the current session, counted up to 2
    otherHandlers          \* _handlers of a second loaded copy of the module

vars == << handlers, adapters, fetchOriginal, globalFetch, config, initialConfig,
           configIsInitial, defaultStrategy, listening, origin, originalFetch,
           fetchAdapterAttached, req, thrown, sessionFetch, instanceAdapter,
           originalAdapter, listenCalls, otherHandlers >>

(***************************************************************************)
(* Bounds                                                                  *)
(***************************************************************************)
MaxHandlers == 3
MaxAdapters == 2
NumUserFns == 2
\* wrappers a request is followed through when wrappers delegate to wrappers
MaxDepth == 3
\* time units a pending request is followed for
MaxTime == 3

(***************************************************************************)
(* Values                                                                  *)
(***************************************************************************)
Null == [k |-> "null", id |-> 0]
\* globalThis.fetch is undefined
NoFetch == [k |-> "none", id |-> 0]
\* a fetch function installed by the environment or by test code
UserFn(i) == [k |-> "user", id |-> i]
\* the async wrapper installed by fetch adapter object a, its core reading
\* the store's configuration at every request
Wrapper(a) == [k |-> "wrap", id |-> a]
\* instance.defaults.adapter is undefined
NoAdapter == [k |-> "none", id |-> 0]
\* the async adapter function installed by axios adapter object a
AxiosWrapper(a) == [k |-> "axios", id |-> a]
\* a wrapper whose core answers getOptions() with the object `configs`
\* captured by server.attachAdapter
WithConfigs(w, configs) == [k |-> w.k, id |-> w.id, configs |-> configs]

\* adapter objects created by listen
AdapterIds == 1..MaxAdapters
\* the adapter object (one of each kind) test code creates itself with
\* createFetchAdapter() and createAxiosAdapter(instance)
OwnAdapter == 0
AllAdapterIds == {OwnAdapter} \cup AdapterIds
UserFns == { UserFn(i) : i \in 1..NumUserFns }
IsFunction(f) == f.k \in {"user", "wrap", "axios"}
IsWrapper(f) == f.k \in {"wrap", "axios"}

HttpMethod == {"GET", "POST", "PUT", "PATCH", "DELETE", "OPTIONS"}
Strategies == {"warn", "error", "bypass"}
Undefined == "undefined"

(***************************************************************************)
(* Strings: URLs and path patterns                                         *)
(***************************************************************************)
Str(scheme, host, segs, query) ==
    [scheme |-> scheme, host |-> host, segs |-> segs, query |-> query]

\* String.prototype.toLowerCase on the scheme, host and segment texts in use
toLowerCase(s) ==
    CASE s = "HTTPS"    -> "https"
      [] s = "API.test" -> "api.test"
      [] s = "A"        -> "a"
      [] s = "USERS"    -> "users"
      [] OTHER          -> s

\* new URL(input) for an absolute input: the parser lower-cases scheme and
\* host and gives an empty path the pathname "/"
ParseURL(input) ==
    Str(toLowerCase(input.scheme), toLowerCase(input.host),
        IF input.segs = << >> THEN <<"">> ELSE input.segs, input.query)

\* url.origin
OriginOf(url) == Str(url.scheme, url.host, << >>, "")

isAbsoluteUrl(input) == toLowerCase(input.scheme) \in {"http", "https"}

\* a normalization that leaves the query out of the key
normalizeAbsoluteUrl_NoQuery(input) ==
    LET u == ParseURL(input)
    IN  Str(toLowerCase(u.scheme), toLowerCase(u.host), u.segs, "")

normalizeAbsoluteUrl(input) ==
    LET u == ParseURL(input)
    IN  Str(toLowerCase(u.scheme), toLowerCase(u.host), u.segs, u.query)

\* store.origin === null
NullOrigin == Str("", "", << >>, "")

\* toRequestUrl: [ok |-> FALSE] stands for the thrown error
toRequestUrl(reqUrl, activeOrigin) ==
    IF isAbsoluteUrl(reqUrl) THEN [ok |-> TRUE, url |-> ParseURL(reqUrl)]
    ELSE IF activeOrigin # NullOrigin
         THEN [ok |-> TRUE,
               url |-> Str(activeOrigin.scheme, activeOrigin.host,
                           IF reqUrl.segs = << >> THEN <<"">> ELSE reqUrl.segs,
                           reqUrl.query)]
         ELSE [ok |-> FALSE, url |-> NullOrigin]

\* p.replace(/\/+/g, "/").replace(/\/$/g, "").split("/").filter(Boolean)
splitPath(segs) == SelectSeq(segs, LAMBDA x : x # "")

StarPattern == Str("", "", <<"*">>, "")

\* compilePattern: the regular expression is kept as its list of segment
\* matchers; (.*) of "/*" is isStar, ([^/]+) is a param part
compilePattern(pattern) ==
    IF pattern = StarPattern
    THEN [isStar |-> TRUE, parts |-> << >>]
    ELSE [isStar |-> FALSE,
          parts  |-> [i \in 1..Len(splitPath(pattern.segs)) |->
                        LET seg == splitPath(pattern.segs)[i]
                        IN  [param |-> seg \in {":id", ":x"}, text |-> seg]]]

\* a pattern whose regular expression is not anchored at the end
matchPattern_Prefix(compiled, pathname) ==
    IF compiled.isStar THEN TRUE
    ELSE LET parts == IF compiled.parts = << >>
                      THEN << [param |-> FALSE, text |-> ""] >>
                      ELSE compiled.parts
         IN  /\ Len(parts) <= Len(pathname)
             /\ \A i \in 1..Len(parts) :
                  IF parts[i].param
                  THEN pathname[i] # ""
                  ELSE toLowerCase(pathname[i]) = toLowerCase(parts[i].text)

\* pattern.re.exec(pathname) # null, pathname given by its segments
\* (the regex carries the "i" flag; ^/$ stands for an empty part list)
matchPattern(compiled, pathname) ==
    IF compiled.isStar THEN TRUE
    ELSE LET parts == IF compiled.parts = << >>
                      THEN << [param |-> FALSE, text |-> ""] >>
                      ELSE compiled.parts
         IN  /\ Len(parts) = Len(pathname)
             /\ \A i \in 1..Len(parts) :
                  IF parts[i].param
                  THEN pathname[i] # ""
                  ELSE toLowerCase(pathname[i]) = toLowerCase(parts[i].text)

\* seg.slice(1) of a ":name" segment
slice1(seg) ==
    CASE seg = ":id" -> "id"
      [] seg = ":x"  -> "x"
      [] OTHER       -> seg

\* decodeURIComponent on the segment texts in use
decodeURIComponent(raw) ==
    CASE raw = "a%20b" -> "a b"
      [] OTHER         -> raw

\* the positions of the capture groups in the pathname
groups(compiled) ==
    { i \in 1..Len(compiled.parts) : compiled.parts[i].param }

\* the params object matchPattern builds for a pathname the pattern
\* matches: each key is bound to its decoded capture, a later capture of
\* the same key replacing an earlier one; captures are kept as segment lists
matchParams(compiled, pathname) ==
    IF compiled.isStar
    THEN [k \in {"_star"} |->
            [i \in 1..Len(pathname) |-> decodeURIComponent(pathname[i])]]
    ELSE [k \in { slice1(compiled.parts[i].text) : i \in groups(compiled) } |->
            LET last == CHOOSE i \in groups(compiled) :
                          /\ slice1(compiled.parts[i].text) = k
                          /\ \A j \in groups(compiled) :
                                slice1(compiled.parts[j].text) = k => j <= i
                raw == IF last \in DOMAIN pathname THEN pathname[last] ELSE ""
            IN  << decodeURIComponent(raw) >>]

(***************************************************************************)
(* Handler functions                                                       *)
(***************************************************************************)
\* an option that was not given (undefined), and one given as n
Omitted == [given |-> FALSE]
Given(n) == [given |-> TRUE, value |-> n]

\* a handler function is the closure its builder created: the builder, the
\* verb of addInterceptFor(method) and the captured json, status and delayMs
Closure(builder, method, json, status, delayMs) ==
    [builder |-> builder, method |-> method, json |-> json,
     status |-> status, delayMs |-> delayMs]

\* a handler function test code wrote itself and passed to server.use
UserHandler == Closure("use", "", "", Omitted, Omitted)

\* () => new HttpResponse(null, { status: 204 }) of intercept.ignore
IgnoreHandler == Closure("ignore", "", "", Omitted, Omitted)

DEFAULT_STATUS(method) ==
    CASE method = "POST"   -> 201
      [] method = "DELETE" -> 204
      [] OTHER             -> 200

\* JSON.stringify on the values in use: null and an object
JSONstringify(json) ==
    CASE json = "null" -> "null"
      [] json = "obj"  -> "{\"ok\":true}"
      [] OTHER         -> json

\* a Response built with a null body
NoBody == ""

\* a respondSuccess that serializes the body whatever the status
respondSuccess_KeepsBody(method, json, status) ==
    [status |-> IF status.given THEN status.value ELSE DEFAULT_STATUS(method),
     body |-> JSONstringify(json)]

\* respondSuccess(json, init) of the builder for `method`
respondSuccess(method, json, status) ==
    LET st == IF status.given THEN status.value ELSE DEFAULT_STATUS(method)
    IN  IF st = 204 THEN [status |-> st, body |-> NoBody]
        ELSE [status |-> st, body |-> JSONstringify(json)]

\* a fetching handler whose timer fires at once
invoke_NoDelay(fn) ==
    [kind |-> "timer",
     status |-> IF fn.status.given THEN fn.status.value ELSE 204,
     body |-> NoBody, delay |-> 0]

\* what a call of the handler function returns: a response, a promise
\* that never resolves, or a promise a timer resolves after `delay`; the
\* response of a function test code wrote is not looked into
invoke(fn) ==
    CASE fn.builder = "resolve" ->
           LET r == respondSuccess(fn.method, fn.json, fn.status)
           IN  [kind |-> "response", status |-> r.status, body |-> r.body,
                delay |-> 0]
      [] fn.builder = "reject" ->
           [kind |-> "response",
            status |-> IF fn.status.given THEN fn.status.value ELSE 400,
            body |-> IF fn.json = Undefined THEN NoBody
                     ELSE JSONstringify(fn.json),
            delay |-> 0]
      [] fn.builder = "fetching" ->
           [kind |-> IF fn.delayMs.given THEN "timer" ELSE "never",
            status |-> IF fn.status.given THEN fn.status.value ELSE 204,
            body |-> NoBody,
            delay |-> IF fn.delayMs.given /\ fn.delayMs.value > 0
                      THEN fn.delayMs.value ELSE 0]
      [] fn.builder = "ignore" ->
           [kind |-> "response", status |-> 204, body |-> NoBody, delay |-> 0]
      [] OTHER ->
           [kind |-> "response", status |-> 0, body |-> "", delay |-> 0]

(***************************************************************************)
(* Core matching (findHandler)                                             *)
(***************************************************************************)
\* a registered route: server.use pushes { method, pathPattern, compiled, fn }
InternalHandler(method, path, fn) ==
    [method      |-> method,
     pathPattern |-> path,
     compiled    |-> IF isAbsoluteUrl(path) THEN compilePattern(StarPattern)
                     ELSE compilePattern(path),
     fn          |-> fn]

Max(S) == CHOOSE x \in S : \A y \in S : y <= x

\* 1) absolute URL pass: indexes whose absolute pattern equals the URL
AbsoluteMatches(hs, method, url) ==
    { i \in 1..Len(hs) :
        /\ hs[i].method = method
        /\ isAbsoluteUrl(hs[i].pathPattern)
        /\ normalizeAbsoluteUrl(hs[i].pathPattern) = normalizeAbsoluteUrl(url) }

\* a relative pass that skips the wildcard route
RelativeMatches_PlainOnly(hs, method, url) ==
    { i \in 1..Len(hs) :
        /\ hs[i].method = method
        /\ ~ isAbsoluteUrl(hs[i].pathPattern)
        /\ hs[i].pathPattern # StarPattern
        /\ matchPattern(hs[i].compiled, url.segs) }

\* 2) relative pass: indexes whose relative pattern matches the pathname
RelativeMatches(hs, method, url) ==
    { i \in 1..Len(hs) :
        /\ hs[i].method = method
        /\ ~ isAbsoluteUrl(hs[i].pathPattern)
        /\ \/ matchPattern(hs[i].compiled, url.segs)
           \/ hs[i].pathPattern = StarPattern }

Min(S) == CHOOSE x \in S : \A y \in S : x <= y

\* findHandler with both loops running from the start of the stack
findHandler_FirstWins(hs, activeOrigin, method, url) ==
    IF AbsoluteMatches(hs, method, url) # {}
    THEN Min(AbsoluteMatches(hs, method, url))
    ELSE IF activeOrigin = NullOrigin THEN 0
    ELSE IF OriginOf(url) # OriginOf(ParseURL(activeOrigin)) THEN 0
    ELSE IF RelativeMatches(hs, method, url) # {}
         THEN Min(RelativeMatches(hs, method, url))
         ELSE 0

\* findHandler with one loop over absolute and relative routes alike
findHandler_SinglePass(hs, activeOrigin, method, url) ==
    LET rel == IF activeOrigin = NullOrigin THEN {}
               ELSE IF OriginOf(url) # OriginOf(ParseURL(activeOrigin)) THEN {}
               ELSE RelativeMatches(hs, method, url)
        all == AbsoluteMatches(hs, method, url) \cup rel
    IN  IF all # {} THEN Max(all) ELSE 0

\* findHandler whose relative pass does not compare origins
findHandler_AnyOrigin(hs, activeOrigin, method, url) ==
    IF AbsoluteMatches(hs, method, url) # {}
    THEN Max(AbsoluteMatches(hs, method, url))
    ELSE IF RelativeMatches(hs, method, url) # {}
         THEN Max(RelativeMatches(hs, method, url))
         ELSE 0

\* index of the handler findHandler returns, 0 for null; both loops run
\* from the end of the stack and return at the first hit
findHandler(hs, activeOrigin, method, url) ==
    IF AbsoluteMatches(hs, method, url) # {}
    THEN Max(AbsoluteMatches(hs, method, url))
    ELSE IF activeOrigin = NullOrigin THEN 0
    ELSE IF OriginOf(url) # OriginOf(ParseURL(activeOrigin)) THEN 0
    ELSE IF RelativeMatches(hs, method, url) # {}
         THEN Max(RelativeMatches(hs, method, url))
         ELSE 0

\* the params findHandler returns with handler i for the URL: {} for an
\* absolute-URL route, else the match of the compiled pattern
paramsOf(hs, i, url) ==
    IF i = 0 \/ isAbsoluteUrl(hs[i].pathPattern) THEN << >>
    ELSE matchParams(hs[i].compiled, url.segs)

(***************************************************************************)
(* Unhandled-request policy and diagnostics                                *)
(***************************************************************************)
\* a decision function is modelled by the value it returns for the request
DecisionFns == {"fn:warn", "fn:error", "fn:bypass", "fn:undefined", "fn:other"}

Returns(fn) ==
    CASE fn = "fn:warn"   -> "warn"
      [] fn = "fn:error"  -> "error"
      [] fn = "fn:bypass" -> "bypass"
      [] fn = "fn:other"  -> "other"
      [] OTHER            -> Undefined

\* a resolver that hands on whatever the decision function returns
resolveStrategy_PassesReturn(opt) ==
    IF opt \in DecisionFns THEN Returns(opt)
    ELSE IF opt = Undefined THEN "warn" ELSE opt

resolveStrategy(opt) ==
    IF opt \in DecisionFns
    THEN (IF Returns(opt) \in Strategies THEN Returns(opt) ELSE "warn")
    ELSE IF opt = Undefined THEN "warn" ELSE opt

\* a logger that writes nothing for "warn"
logUnhandled_Silent(kind) ==
    IF kind = "warn"
    THEN [warns |-> 0, errors |-> 0, throws |-> FALSE]
    ELSE [warns |-> 0, errors |-> 1, throws |-> TRUE]

\* logUnhandled(kind, req, url): what it writes to the console and whether
\* it throws
logUnhandled(kind) ==
    IF kind = "warn"
    THEN [warns |-> 1, errors |-> 0, throws |-> FALSE]
    ELSE [warns |-> 0, errors |-> 1, throws |-> TRUE]

(***************************************************************************)
(* Initial state                                                           *)
(***************************************************************************)
NoHandler == InternalHandler("", NullOrigin, Closure("", "", "", Omitted, Omitted))

\* no request has been issued yet
NoRequest ==
    [pc |-> "idle", via |-> NoFetch, method |-> "", url |-> NullOrigin,
     sel |-> 0, handler |-> NoHandler, outcome |-> "", status |-> 0,
     calledFn |-> NoFetch, calls |-> 0, warns |-> 0, errors |-> 0,
     strategy |-> "", isAxiosError |-> FALSE, input |-> NullOrigin,
     baseURL |-> NullOrigin, instanceBaseURL |-> NullOrigin, depth |-> 0,
     params |-> << >>, body |-> "", elapsed |-> 0,
     sent |-> "", arg |-> "undefined"]

\* getDefaultOnUnhandledRequest(): "error" in a test environment, else "warn"
getDefaultOnUnhandledRequest(isTestEnvironment) ==
    IF isTestEnvironment THEN "error" ELSE "warn"

\* the store is created from initialState by a shallow copy, so store.config
\* is the very object initialState.config; the environment may or may not
\* provide a global fetch
Init ==
    /\ handlers = << >>
    /\ adapters = << >>
    /\ fetchOriginal = [a \in AllAdapterIds |-> Null]
    /\ originalAdapter = [a \in AllAdapterIds |-> Null]
    /\ instanceAdapter = UserFn(1)
    /\ listenCalls = 0
    /\ otherHandlers = << >>
    /\ globalFetch \in {NoFetch, UserFn(1)}
    /\ \E isTestEnvironment \in BOOLEAN :
         defaultStrategy = getDefaultOnUnhandledRequest(isTestEnvironment)
    /\ config = defaultStrategy
    /\ initialConfig = defaultStrategy
    /\ configIsInitial = TRUE
    /\ listening = FALSE
    /\ origin = NullOrigin
    /\ originalFetch = Null
    /\ fetchAdapterAttached = FALSE
    /\ req = NoRequest
    /\ thrown = "none"
    /\ sessionFetch = NoFetch

(***************************************************************************)
(* Store: configuration                                                    *)
(***************************************************************************)
\* setConfig writes the field of the object store.config refers to;
\* [config, initialConfig] after the call
setConfig(onUnhandledRequest, cfg, initCfg, isInitial) ==
    [config        |-> IF onUnhandledRequest # Undefined
                       THEN onUnhandledRequest ELSE cfg,
     initialConfig |-> IF onUnhandledRequest # Undefined /\ isInitial
                       THEN onUnhandledRequest ELSE initCfg]

\* resetConfig: store.config = { ...initialState.config }
resetConfig(initCfg) ==
    [config |-> initCfg, initialConfig |-> initCfg, configIsInitial |-> FALSE]

\* validateOrigin: [ok |-> FALSE] stands for the thrown error
\* url.hash of an input; only inputs written with a fragment carry the field
hashOf(input) == IF "hash" \in DOMAIN input THEN input.hash ELSE ""

\* a URL with a fragment
WithHash(url, hash) ==
    [scheme |-> url.scheme, host |-> url.host, segs |-> url.segs,
     query |-> url.query, hash |-> hash]

\* a validation that does not look at the path
validateOrigin_AllowsPath(input) ==
    IF input.scheme = "" THEN [ok |-> FALSE, value |-> NullOrigin]
    ELSE LET url == ParseURL(input)
         IN  IF url.query # "" \/ hashOf(input) # "" \/ url.host = ""
             THEN [ok |-> FALSE, value |-> NullOrigin]
             ELSE [ok |-> TRUE,
                   value |-> Str(toLowerCase(url.scheme),
                                 toLowerCase(url.host), << >>, "")]

validateOrigin(input) ==
    IF input.scheme = "" THEN [ok |-> FALSE, value |-> NullOrigin]
    ELSE LET url == ParseURL(input)
         IN  IF url.segs # <<"">> \/ url.query # "" \/ hashOf(input) # ""
             THEN [ok |-> FALSE, value |-> NullOrigin]
             ELSE IF url.host = ""
             THEN [ok |-> FALSE, value |-> NullOrigin]
             ELSE [ok |-> TRUE,
                   value |-> Str(toLowerCase(url.scheme),
                                 toLowerCase(url.host), << >>, "")]

(***************************************************************************)
(* Fetch adapter (createFetchAdapter)                                      *)
(***************************************************************************)
FetchAdapter(a) == [kind |-> "fetch", id |-> a]

\* adapter objects no longer referenced by the program can be reused as
\* fresh objects
InUse(a) ==
    \/ \E i \in 1..Len(adapters) : adapters[i] = FetchAdapter(a)
    \/ \E f \in {globalFetch, originalFetch}
                 \cup { fetchOriginal[b] : b \in AllAdapterIds } :
         f.k = "wrap" /\ f.id = a
    \/ req.pc = "pending" /\ req.via.k = "wrap" /\ req.via.id = a

\* attach(core) of adapter a, w being the wrapper function the call
\* creates: [fetchOriginal, globalFetch] after the call
attach(a, w, fo, gf) ==
    IF fo[a] # Null THEN [fetchOriginal |-> fo, globalFetch |-> gf]
    ELSE [fetchOriginal |-> [fo EXCEPT ![a] = IF gf = NoFetch THEN Null ELSE gf],
          globalFetch   |-> w]

\* detach() of adapter a
detach(a, fo, gf) ==
    IF fo[a] # Null
    THEN [fetchOriginal |-> [fo EXCEPT ![a] = Null], globalFetch |-> fo[a]]
    ELSE [fetchOriginal |-> fo, globalFetch |-> gf]

\* a passthrough that calls `original` without looking at it
passthrough_CallsNull(a, fo) ==
    IF fo[a] = Null
    THEN [outcome |-> "rejected", status |-> 0, calledFn |-> NoFetch, calls |-> 0]
    ELSE [outcome |-> "original", status |-> 0, calledFn |-> fo[a], calls |-> 1]

\* passthrough(input, init) of adapter a: the response the wrapper returns
passthrough(a, fo) ==
    IF fo[a] = Null
    THEN [outcome |-> "synthetic", status |-> 500, calledFn |-> NoFetch, calls |-> 0]
    ELSE [outcome |-> "original", status |-> 0, calledFn |-> fo[a], calls |-> 1]

(***************************************************************************)
(* Axios adapter (createAxiosAdapter)                                      *)
(***************************************************************************)
AxiosAdapter(a) == [kind |-> "axios", id |-> a]

\* axios adapter objects no longer referenced by the program can be reused
\* as fresh objects
AxiosInUse(a) ==
    \/ \E i \in 1..Len(adapters) : adapters[i] = AxiosAdapter(a)
    \/ \E f \in {instanceAdapter}
                 \cup { originalAdapter[b] : b \in AllAdapterIds } :
         f.k = "axios" /\ f.id = a
    \/ req.pc = "pending" /\ req.via.k = "axios" /\ req.via.id = a

\* attach(core) of axios adapter a, w being the adapter function the call
\* creates: [originalAdapter, instanceAdapter] after the call
axiosAttach(a, w, oa, ia) ==
    IF oa[a] # Null THEN [originalAdapter |-> oa, instanceAdapter |-> ia]
    ELSE [originalAdapter |-> [oa EXCEPT ![a] = IF ia = NoAdapter THEN Null ELSE ia],
          instanceAdapter |-> w]

\* detach() of axios adapter a
axiosDetach(a, oa, ia) ==
    IF oa[a] # Null
    THEN [originalAdapter |-> [oa EXCEPT ![a] = Null], instanceAdapter |-> oa[a]]
    ELSE [originalAdapter |-> oa, instanceAdapter |-> ia]

\* isAxiosLikeInstance(options.adapter): the option is the axios instance
\* or absent
Instance == "instance"
isAxiosLikeInstance(adapter) == adapter = Instance

(***************************************************************************)
(* server.listen                                                           *)
(***************************************************************************)
\* a listen that attaches a fetch adapter whenever a fetch function exists
needsFetchAdapter_Always(attached, gf) == IsFunction(gf)

\* the condition under which listen creates and attaches the fetch adapter
needsFetchAdapter(attached, gf) == ~ attached /\ IsFunction(gf)

\* the adapter object a call of createFetchAdapter() / createAxiosAdapter()
\* inside listen returns: a fresh one
NewFetchAdapter ==
    CHOOSE a \in AdapterIds : ~ InUse(a) /\ \A b \in AdapterIds : ~ InUse(b) => a <= b

NewAxiosAdapter ==
    CHOOSE a \in AdapterIds :
      ~ AxiosInUse(a) /\ \A b \in AdapterIds : ~ AxiosInUse(b) => a <= b

\* options.onUnhandledRequest is a strategy, a decision function or
\* Undefined; options.adapter is the axios instance or Undefined
listen(onUnhandledRequest, adapter) ==
    LET cfg == setConfig(onUnhandledRequest, config, initialConfig, configIsInitial)
        preAttachFetch == IF IsFunction(globalFetch) THEN globalFetch ELSE Null
        attachesFetch == needsFetchAdapter(fetchAdapterAttached, globalFetch)
        attachesAxios == adapter # Undefined /\ isAxiosLikeInstance(adapter)
        f == NewFetchAdapter
        x == NewAxiosAdapter
        att == attach(f, Wrapper(f), [fetchOriginal EXCEPT ![f] = Null], globalFetch)
        axi == axiosAttach(x, AxiosWrapper(x),
                           [originalAdapter EXCEPT ![x] = Null], instanceAdapter)
    IN  /\ attachesFetch => \E a \in AdapterIds : ~ InUse(a)
        /\ attachesAxios => \E a \in AdapterIds : ~ AxiosInUse(a)
        /\ config' = cfg.config
        /\ initialConfig' = cfg.initialConfig
        /\ fetchOriginal' = IF attachesFetch THEN att.fetchOriginal ELSE fetchOriginal
        /\ globalFetch' = IF attachesFetch THEN att.globalFetch ELSE globalFetch
        /\ fetchAdapterAttached' = (attachesFetch \/ fetchAdapterAttached)
        /\ originalFetch' = IF originalFetch = Null THEN preAttachFetch
                            ELSE originalFetch
        /\ originalAdapter' = IF attachesAxios THEN axi.originalAdapter
                              ELSE originalAdapter
        /\ instanceAdapter' = IF attachesAxios THEN axi.instanceAdapter
                              ELSE instanceAdapter
        /\ adapters' = (IF attachesFetch THEN Append(adapters, FetchAdapter(f))
                        ELSE adapters)
                       \o (IF attachesAxios THEN << AxiosAdapter(x) >> ELSE << >>)
        /\ listening' = TRUE
        /\ sessionFetch' = IF listening THEN sessionFetch ELSE globalFetch
        /\ listenCalls' = IF listenCalls < 2 THEN listenCalls + 1 ELSE 2
        /\ thrown' = "none"
        /\ UNCHANGED << handlers, configIsInitial, defaultStrategy, origin, req,
                        otherHandlers >>

\* intercept.listen(options) forwards only onUnhandledRequest
Listen(onUnhandledRequest) == listen(onUnhandledRequest, Undefined)

\* server.listen(options) called directly
ServerListen(onUnhandledRequest, adapter) == listen(onUnhandledRequest, adapter)

(***************************************************************************)
(* server.use, intercept.<verb>(path).<builder>, intercept.ignore           *)
(***************************************************************************)
UnchangedByRegistration ==
    UNCHANGED << adapters, fetchOriginal, globalFetch, config, initialConfig,
                 configIsInitial, defaultStrategy, listening, origin,
                 originalFetch, fetchAdapterAttached, req, sessionFetch,
                 instanceAdapter, originalAdapter, listenCalls, otherHandlers >>

\* a registration that puts the route at the bottom of the stack
use_Prepend(hs, method, path, fn) ==
    << InternalHandler(method, path, fn) >> \o hs

\* the stack after server.use succeeded
use(hs, method, path, fn) == Append(hs, InternalHandler(method, path, fn))

\* server.use without the listening guard
Use_Unguarded(method, path, fn) ==
    /\ handlers' = use(handlers, method, path, fn)
    /\ thrown' = "none"
    /\ UnchangedByRegistration

Use(method, path, fn) ==
    /\ IF ~ listening
       THEN /\ thrown' = "RegisterBeforeListen"
            /\ UNCHANGED handlers
       ELSE /\ handlers' = use(handlers, method, path, fn)
            /\ thrown' = "none"
    /\ UnchangedByRegistration

\* register() of the intercept facade: assertListening(), then server.use
Register(method, path, fn) ==
    /\ IF ~ listening
       THEN /\ thrown' = "MustCallListen"
            /\ UNCHANGED handlers
       ELSE /\ handlers' = use(handlers, method, path, fn)
            /\ thrown' = "none"
    /\ UnchangedByRegistration

\* intercept.<verb>(path).resolve(json, { status })
Resolve(method, path, json, status) ==
    Register(method, path, Closure("resolve", method, json, status, Omitted))

\* intercept.<verb>(path).reject({ status, body })
Reject(method, path, body, status) ==
    Register(method, path, Closure("reject", method, body, status, Omitted))

\* intercept.<verb>(path).fetching({ delayMs, status })
Fetching(method, path, delayMs, status) ==
    Register(method, path, Closure("fetching", method, "", status, delayMs))

IgnoreMethods == <<"GET", "POST", "PUT", "PATCH", "DELETE", "OPTIONS">>

\* an ignore that registers one GET route for its first path
ignoreAll_GetOnly(hs, paths, p, m) ==
    IF paths = << >> THEN hs ELSE use(hs, "GET", paths[1], IgnoreHandler)

RECURSIVE ignoreAll(_, _, _, _)
\* the two nested loops of intercept.ignore, from path p and method m on
ignoreAll(hs, paths, p, m) ==
    IF p > Len(paths) THEN hs
    ELSE IF m > Len(IgnoreMethods) THEN ignoreAll(hs, paths, p + 1, 1)
    ELSE ignoreAll(use(hs, IgnoreMethods[m], paths[p], IgnoreHandler), paths, p, m + 1)

Ignore(paths) ==
    /\ IF ~ listening
       THEN /\ thrown' = "MustCallListen"
            /\ UNCHANGED handlers
       ELSE /\ handlers' = ignoreAll(handlers, paths, 1, 1)
            /\ thrown' = "none"
    /\ UnchangedByRegistration

(***************************************************************************)
(* server.resetHandlers (intercept.reset)                                  *)
(***************************************************************************)
resetHandlers(hs) == << >>

\* a reset that also clears the active origin
ResetHandlers_ClearsOrigin ==
    /\ handlers' = resetHandlers(handlers)
    /\ origin' = NullOrigin
    /\ thrown' = "none"
    /\ UNCHANGED << adapters, fetchOriginal, globalFetch, config, initialConfig,
                    configIsInitial, defaultStrategy, listening,
                    originalFetch, fetchAdapterAttached, req, sessionFetch,
                 instanceAdapter, originalAdapter, listenCalls, otherHandlers >>

ResetHandlers ==
    /\ handlers' = resetHandlers(handlers)
    /\ thrown' = "none"
    /\ UnchangedByRegistration

(***************************************************************************)
(* intercept.origin -> setActiveOrigin -> setOrigin                        *)
(***************************************************************************)
SetOrigin(input) ==
    /\ IF validateOrigin(input).ok
       THEN /\ origin' = validateOrigin(validateOrigin(input).value).value
            /\ thrown' = "none"
       ELSE /\ thrown' = "InvalidOrigin"
            /\ UNCHANGED origin
    /\ UNCHANGED << handlers, adapters, fetchOriginal, globalFetch, config,
                    initialConfig, configIsInitial, defaultStrategy, listening,
                    originalFetch, fetchAdapterAttached, req, sessionFetch,
                 instanceAdapter, originalAdapter, listenCalls, otherHandlers >>

(***************************************************************************)
(* server.close                                                            *)
(***************************************************************************)
\* the patched fields and the adapters' closure variables
Patches(s) ==
    [fetchOriginal |-> s.fetchOriginal, globalFetch |-> s.globalFetch,
     originalAdapter |-> s.originalAdapter, instanceAdapter |-> s.instanceAdapter]

\* an adapter object test code wrote itself, whose attach patches nothing
\* and whose detach throws
ThrowingAdapter == [kind |-> "throws", id |-> 0]

\* adapter.detach() throws
detachThrows(ad) == ad.kind = "throws"

\* adapter.detach() of the adapter object ad
detachAdapterObject(ad, p) ==
    IF detachThrows(ad) THEN p
    ELSE IF ad.kind = "fetch"
    THEN LET d == detach(ad.id, p.fetchOriginal, p.globalFetch)
         IN  [p EXCEPT !.fetchOriginal = d.fetchOriginal,
                       !.globalFetch = d.globalFetch]
    ELSE LET d == axiosDetach(ad.id, p.originalAdapter, p.instanceAdapter)
         IN  [p EXCEPT !.originalAdapter = d.originalAdapter,
                       !.instanceAdapter = d.instanceAdapter]

RECURSIVE detachAll_StopsAtThrow(_, _, _)
\* the reverse loop without its try/catch: it ends at the first throw
detachAll_StopsAtThrow(ads, i, p) ==
    IF i = 0 THEN p
    ELSE IF detachThrows(ads[i]) THEN p
    ELSE detachAll_StopsAtThrow(ads, i - 1, detachAdapterObject(ads[i], p))

RECURSIVE detachAll(_, _, _)
\* the reverse loop over _adapters, from index i down
detachAll(ads, i, p) ==
    IF i = 0 THEN p
    ELSE detachAll(ads, i - 1, detachAdapterObject(ads[i], p))

\* the program state as one record
State ==
    [handlers |-> handlers, adapters |-> adapters,
     fetchOriginal |-> fetchOriginal, globalFetch |-> globalFetch,
     originalAdapter |-> originalAdapter, instanceAdapter |-> instanceAdapter,
     config |-> config, initialConfig |-> initialConfig,
     configIsInitial |-> configIsInitial, listening |-> listening,
     origin |-> origin, originalFetch |-> originalFetch,
     fetchAdapterAttached |-> fetchAdapterAttached]

\* the statements of server.close() applied to state s
closed(s) ==
    LET d == detachAll(s.adapters, Len(s.adapters), Patches(s))
        cfg == resetConfig(s.initialConfig)
    IN  [handlers             |-> << >>,
         adapters             |-> << >>,
         fetchOriginal        |-> d.fetchOriginal,
         globalFetch          |-> IF s.originalFetch # Null THEN s.originalFetch
                                  ELSE d.globalFetch,
         originalAdapter      |-> d.originalAdapter,
         instanceAdapter      |-> d.instanceAdapter,
         config               |-> cfg.config,
         initialConfig        |-> cfg.initialConfig,
         configIsInitial      |-> cfg.configIsInitial,
         listening            |-> FALSE,
         origin               |-> NullOrigin,
         originalFetch        |-> Null,
         fetchAdapterAttached |-> FALSE]

\* close that leaves globalThis.fetch as it finds it
close_KeepsFetchPatched(s) == [closed(s) EXCEPT !.globalFetch = s.globalFetch]

\* close without resetOrigin()
close_KeepsOrigin(s) == [closed(s) EXCEPT !.origin = s.origin]

\* the state server.close() leaves when called in state s
close(s) == closed(s)

Close ==
    LET c == close(State)
    IN  /\ handlers' = c.handlers
        /\ adapters' = c.adapters
        /\ fetchOriginal' = c.fetchOriginal
        /\ globalFetch' = c.globalFetch
        /\ originalAdapter' = c.originalAdapter
        /\ instanceAdapter' = c.instanceAdapter
        /\ config' = c.config
        /\ initialConfig' = c.initialConfig
        /\ configIsInitial' = c.configIsInitial
        /\ listening' = c.listening
        /\ origin' = c.origin
        /\ originalFetch' = c.originalFetch
        /\ fetchAdapterAttached' = c.fetchAdapterAttached
        /\ listenCalls' = 0
        /\ thrown' = "none"
        /\ UNCHANGED << defaultStrategy, req, sessionFetch, otherHandlers >>

(***************************************************************************)
(* server.attachAdapter, server.detachAdapter                              *)
(***************************************************************************)
\* getConfigs() returns the object store.configs; setConfigs and
\* resetConfigs never write to that object, they replace it, so the object
\* keeps the values it has now
getConfigs(cfg) == cfg

\* the adapter objects test code holds
OwnAdapters == { FetchAdapter(OwnAdapter), AxiosAdapter(OwnAdapter) }

\* adapter.attach(core) of adapter object ad with the core attachAdapter
\* builds, whose getOptions() returns the captured configs
attachAdapterObject(ad, configs, p) ==
    IF ad.kind = "throws" THEN p
    ELSE IF ad.kind = "fetch"
    THEN LET d == attach(ad.id, WithConfigs(Wrapper(ad.id), configs),
                         p.fetchOriginal, p.globalFetch)
         IN  [p EXCEPT !.fetchOriginal = d.fetchOriginal,
                       !.globalFetch = d.globalFetch]
    ELSE LET d == axiosAttach(ad.id, WithConfigs(AxiosWrapper(ad.id), configs),
                              p.originalAdapter, p.instanceAdapter)
         IN  [p EXCEPT !.originalAdapter = d.originalAdapter,
                       !.instanceAdapter = d.instanceAdapter]

\* _adapters.indexOf(adapter), 0 when absent
indexOf(ads, ad) ==
    IF \E i \in 1..Len(ads) : ads[i] = ad
    THEN Min({ i \in 1..Len(ads) : ads[i] = ad })
    ELSE 0

\* _adapters.splice(i, 1)
splice(ads, i) == [j \in 1..(Len(ads) - 1) |-> IF j < i THEN ads[j] ELSE ads[j + 1]]

AttachAdapter(ad) ==
    LET p == attachAdapterObject(ad, getConfigs(config), Patches(State))
    IN  /\ fetchOriginal' = p.fetchOriginal
        /\ globalFetch' = p.globalFetch
        /\ originalAdapter' = p.originalAdapter
        /\ instanceAdapter' = p.instanceAdapter
        /\ adapters' = Append(adapters, ad)
        /\ thrown' = "none"
        /\ UNCHANGED << handlers, config, initialConfig, configIsInitial,
                        defaultStrategy, listening, origin, originalFetch,
                        fetchAdapterAttached, req, sessionFetch, listenCalls, otherHandlers >>

DetachAdapter(ad) ==
    LET i == indexOf(adapters, ad)
        p == IF i > 0 THEN detachAdapterObject(ad, Patches(State))
             ELSE Patches(State)
    IN  /\ fetchOriginal' = p.fetchOriginal
        /\ globalFetch' = p.globalFetch
        /\ originalAdapter' = p.originalAdapter
        /\ instanceAdapter' = p.instanceAdapter
        /\ adapters' = IF i > 0 THEN splice(adapters, i) ELSE adapters
        /\ thrown' = IF i > 0 /\ detachThrows(ad) THEN "DetachError" ELSE "none"
        /\ UNCHANGED << handlers, config, initialConfig, configIsInitial,
                        defaultStrategy, listening, origin, originalFetch,
                        fetchAdapterAttached, req, sessionFetch, listenCalls, otherHandlers >>

(***************************************************************************)
(* A second copy of the module, loaded through another resolution path: it *)
(* finds the store of the first copy under STORE_KEY and has its own       *)
(* _handlers, _adapters and initialState; it registers, resets and closes  *)
(***************************************************************************)
\* server.use of the second copy: the listening flag is the shared one, the
\* route goes onto the copy's own stack
UseOther(method, path, fn) ==
    /\ IF ~ listening
       THEN /\ thrown' = "RegisterBeforeListen"
            /\ UNCHANGED otherHandlers
       ELSE /\ otherHandlers' = use(otherHandlers, method, path, fn)
            /\ thrown' = "none"
    /\ UNCHANGED << handlers, adapters, fetchOriginal, globalFetch, config,
                    initialConfig, configIsInitial, defaultStrategy, listening,
                    origin, originalFetch, fetchAdapterAttached, req,
                    sessionFetch, instanceAdapter, originalAdapter, listenCalls >>

\* server.close of the second copy: its own _adapters is empty, so no
\* adapter is detached; the shared store is reset, store.config from the
\* copy's own initialState
CloseOther ==
    /\ otherHandlers' = << >>
    /\ fetchAdapterAttached' = FALSE
    /\ globalFetch' = IF originalFetch # Null THEN originalFetch ELSE globalFetch
    /\ originalFetch' = Null
    /\ origin' = NullOrigin
    /\ config' = defaultStrategy
    /\ configIsInitial' = FALSE
    /\ listening' = FALSE
    /\ listenCalls' = 0
    /\ thrown' = "none"
    /\ UNCHANGED << handlers, adapters, fetchOriginal, initialConfig,
                    defaultStrategy, req, sessionFetch, instanceAdapter,
                    originalAdapter >>

(***************************************************************************)
(* Test code builds the axios instance with or without a default adapter   *)
(***************************************************************************)
StubAdapter(f) ==
    /\ instanceAdapter' = f
    /\ thrown' = "none"
    /\ UNCHANGED << handlers, adapters, fetchOriginal, globalFetch, config,
                    initialConfig, configIsInitial, defaultStrategy, listening,
                    origin, originalFetch, fetchAdapterAttached, req,
                    sessionFetch, originalAdapter, listenCalls, otherHandlers >>

(***************************************************************************)
(* Test code replaces globalThis.fetch (stubOriginalFetchReturning)        *)
(***************************************************************************)
StubFetch(f) ==
    /\ globalFetch' = f
    /\ thrown' = "none"
    /\ UNCHANGED << handlers, adapters, fetchOriginal, config, initialConfig,
                    configIsInitial, defaultStrategy, listening, origin,
                    originalFetch, fetchAdapterAttached, req, sessionFetch,
                 instanceAdapter, originalAdapter, listenCalls, otherHandlers >>

(***************************************************************************)
(* A call of globalThis.fetch(input)                                       *)
(***************************************************************************)
\* a tryHandle that answers a request it cannot resolve with the last route
tryHandle_LastRoute(hs, activeOrigin, method, input) ==
    LET r == toRequestUrl(input, activeOrigin)
    IN  IF ~ r.ok THEN Len(hs) ELSE findHandler(hs, activeOrigin, method, r.url)

\* tryHandle up to its first await: the URL is resolved and the handler is
\* chosen against the registry as it is now
tryHandle(hs, activeOrigin, method, input) ==
    LET r == toRequestUrl(input, activeOrigin)
    IN  IF ~ r.ok THEN 0 ELSE findHandler(hs, activeOrigin, method, r.url)

\* the params tryHandle passes to the handler it chose
tryHandleParams(hs, activeOrigin, method, input) ==
    paramsOf(hs, tryHandle(hs, activeOrigin, method, input),
             toRequestUrl(input, activeOrigin).url)

\* the call runs the callee up to its first await (wrapper) or hands the
\* request to the function test code or the environment installed
\* a body parser that hands the text over unparsed
tryJson_Raw(raw) == raw

\* tryJson(req): the parsed body, undefined when req.clone().json() throws
\* (an empty body and a text that is not JSON)
tryJson(raw) ==
    CASE raw = "{\"ok\":true}" -> "obj"
      [] raw = "null"          -> "null"
      [] OTHER                 -> Undefined

\* fetch(input, { method, body }) through globalThis.fetch
FetchWith(method, input, body) ==
    /\ IsFunction(globalFetch)
    /\ req.pc # "pending"
    /\ IF globalFetch.k = "wrap"
       THEN LET sel == tryHandle(handlers, origin, method, input)
            IN  req' = [NoRequest EXCEPT
                          !.pc = "pending", !.via = globalFetch,
                          !.sent = body,
                          !.method = method, !.url = ParseURL(input),
                          !.input = input, !.sel = sel,
                          !.params = tryHandleParams(handlers, origin, method, input),
                          !.handler = IF sel = 0 THEN NoHandler ELSE handlers[sel]]
       ELSE req' = [NoRequest EXCEPT
                          !.pc = "settled", !.via = globalFetch,
                          !.sent = body,
                          !.method = method, !.url = ParseURL(input),
                          !.outcome = "original", !.calledFn = globalFetch,
                          !.calls = 1]
    /\ thrown' = "none"
    /\ UNCHANGED << handlers, adapters, fetchOriginal, globalFetch, config,
                    initialConfig, configIsInitial, defaultStrategy, listening,
                    origin, originalFetch, fetchAdapterAttached, sessionFetch,
                    instanceAdapter, originalAdapter, listenCalls, otherHandlers >>

\* fetch(input, { method }): a request without a body
Fetch(method, input) == FetchWith(method, input, NoBody)

\* a wrapper that warns under "bypass" as it does under "warn"
unhandled_BypassWarns(a, opt, fo) ==
    LET strategy == resolveStrategy(opt)
        log == logUnhandled(IF strategy \in {"warn", "bypass"} THEN "warn" ELSE "error")
        pass == passthrough(a, fo)
    IN  IF strategy \in {"warn", "bypass"}
        THEN [outcome |-> pass.outcome, status |-> pass.status,
              calledFn |-> pass.calledFn, calls |-> pass.calls,
              warns |-> log.warns, errors |-> log.errors, strategy |-> strategy]
        ELSE [outcome |-> "rejected", status |-> 0,
              calledFn |-> NoFetch, calls |-> 0,
              warns |-> log.warns, errors |-> log.errors, strategy |-> strategy]

\* what the wrapper of adapter a does with an unmatched request once
\* tryHandle has returned { matched: false }
unhandled(a, opt, fo) ==
    LET strategy == resolveStrategy(opt)
        log == logUnhandled(IF strategy = "warn" THEN "warn" ELSE "error")
        pass == passthrough(a, fo)
    IN  IF strategy = "warn"
        THEN [outcome |-> pass.outcome, status |-> pass.status,
              calledFn |-> pass.calledFn, calls |-> pass.calls,
              warns |-> log.warns, errors |-> log.errors, strategy |-> strategy]
        ELSE IF strategy = "bypass"
        THEN [outcome |-> pass.outcome, status |-> pass.status,
              calledFn |-> pass.calledFn, calls |-> pass.calls,
              warns |-> 0, errors |-> 0, strategy |-> strategy]
        ELSE IF log.throws
        THEN [outcome |-> "rejected", status |-> 0,
              calledFn |-> NoFetch, calls |-> 0,
              warns |-> log.warns, errors |-> log.errors, strategy |-> strategy]
        ELSE [outcome |-> "synthetic", status |-> 501,
              calledFn |-> NoFetch, calls |-> 0,
              warns |-> log.warns, errors |-> log.errors, strategy |-> strategy]

(***************************************************************************)
(* A request through the axios instance: instance.defaults.adapter(config) *)
(***************************************************************************)
\* String.prototype.toUpperCase on the method texts in use
toUpperCase(s) ==
    CASE s = "get"  -> "GET"
      [] s = "post" -> "POST"
      [] OTHER      -> s

\* isAbsoluteURL of the axios adapter: a scheme followed by "//"
isAbsoluteURL(url) == url.scheme # ""

\* combineURLs(baseURL, relativeURL): trailing slashes of the base and
\* leading slashes of the relative URL are removed, then both are joined
\* with one "/"
RECURSIVE dropTrailingEmpty(_)
dropTrailingEmpty(segs) ==
    IF segs # << >> /\ segs[Len(segs)] = ""
    THEN dropTrailingEmpty(SubSeq(segs, 1, Len(segs) - 1))
    ELSE segs

combineURLs(baseURL, relativeURL) ==
    IF relativeURL = NullOrigin THEN baseURL
    ELSE Str(baseURL.scheme, baseURL.host,
             dropTrailingEmpty(baseURL.segs)
               \o (IF relativeURL.segs = << >> THEN <<"">> ELSE relativeURL.segs),
             relativeURL.query)

\* REL_BASE
RelBase == Str("http", "origin.invalid", << >>, "")

\* axiosConfigToRequest: the method and URL of the Request it builds;
\* config is [url, method, baseURL], absent fields being Undefined or the
\* empty string
axiosConfigToRequest(config_, instanceBaseURL, active) ==
    LET candidateBase == IF config_.baseURL # NullOrigin THEN config_.baseURL
                         ELSE instanceBaseURL
        fullUrl == IF isAbsoluteURL(config_.url) THEN config_.url
                   ELSE IF candidateBase # NullOrigin
                        THEN combineURLs(candidateBase, config_.url)
                   ELSE IF active # NullOrigin
                        THEN combineURLs(active, config_.url)
                   ELSE Str(RelBase.scheme, RelBase.host,
                            IF config_.url.segs = << >> THEN <<"">>
                            ELSE config_.url.segs,
                            config_.url.query)
    IN  [method |-> toUpperCase(IF config_.method = Undefined THEN "get"
                                ELSE config_.method),
         url    |-> ParseURL(fullUrl)]

\* core.getOptions().onUnhandledRequest of the core the wrapper w closed over
getOptions(w, cfg) == IF "configs" \in DOMAIN w THEN w.configs ELSE cfg

\* what the adapter function of axios adapter a does with an unmatched
\* request once tryHandle has returned { matched: false }
\* an adapter function that rejects with a plain error when it has no
\* original adapter
axiosUnhandled_PlainError(a, opt, oa) ==
    LET strategy == resolveStrategy(opt)
        log == logUnhandled(IF strategy = "warn" THEN "warn" ELSE "error")
    IN  IF strategy \in {"warn", "bypass"}
        THEN [outcome |-> IF oa[a] # Null THEN "original" ELSE "rejected",
              status |-> 0,
              isAxiosError |-> FALSE,
              calledFn |-> IF oa[a] # Null THEN oa[a] ELSE NoFetch,
              calls |-> IF oa[a] # Null THEN 1 ELSE 0,
              warns |-> IF strategy = "warn" THEN log.warns ELSE 0,
              errors |-> 0, strategy |-> strategy]
        ELSE [outcome |-> "rejected",
              status |-> IF log.throws THEN 0 ELSE 501,
              isAxiosError |-> ~ log.throws,
              calledFn |-> NoFetch, calls |-> 0,
              warns |-> log.warns, errors |-> log.errors, strategy |-> strategy]

axiosUnhandled(a, opt, oa) ==
    LET strategy == resolveStrategy(opt)
        log == logUnhandled(IF strategy = "warn" THEN "warn" ELSE "error")
    IN  IF strategy \in {"warn", "bypass"}
        THEN [outcome |-> IF oa[a] # Null THEN "original" ELSE "rejected",
              status |-> IF oa[a] # Null THEN 0 ELSE 500,
              isAxiosError |-> (oa[a] = Null),
              calledFn |-> IF oa[a] # Null THEN oa[a] ELSE NoFetch,
              calls |-> IF oa[a] # Null THEN 1 ELSE 0,
              warns |-> IF strategy = "warn" THEN log.warns ELSE 0,
              errors |-> 0, strategy |-> strategy]
        ELSE [outcome |-> "rejected",
              status |-> IF log.throws THEN 0 ELSE 501,
              isAxiosError |-> ~ log.throws,
              calledFn |-> NoFetch, calls |-> 0,
              warns |-> log.warns, errors |-> log.errors, strategy |-> strategy]

\* instance.request(config) of the axios instance: the current
\* defaults.adapter is called and runs up to its first await
AxiosRequest(config_, instanceBaseURL) ==
    /\ IsFunction(instanceAdapter)
    /\ req.pc # "pending"
    /\ LET r == axiosConfigToRequest(config_, instanceBaseURL, origin)
       IN  IF instanceAdapter.k = "axios"
           THEN LET sel == tryHandle(handlers, origin, r.method, r.url)
                IN  req' = [NoRequest EXCEPT
                              !.pc = "pending", !.via = instanceAdapter,
                              !.method = r.method, !.url = r.url,
                              !.input = config_.url, !.baseURL = config_.baseURL,
                              !.instanceBaseURL = instanceBaseURL,
                              !.sel = sel,
                              !.params = tryHandleParams(handlers, origin,
                                                         r.method, r.url),
                              !.handler = IF sel = 0 THEN NoHandler ELSE handlers[sel]]
           ELSE req' = [NoRequest EXCEPT
                              !.pc = "settled", !.via = instanceAdapter,
                              !.method = r.method, !.url = r.url,
                              !.input = config_.url, !.baseURL = config_.baseURL,
                              !.outcome = "original", !.calledFn = instanceAdapter,
                              !.calls = 1]
    /\ thrown' = "none"
    /\ UNCHANGED << handlers, adapters, fetchOriginal, globalFetch, config,
                    initialConfig, configIsInitial, defaultStrategy, listening,
                    origin, originalFetch, fetchAdapterAttached, sessionFetch,
                    instanceAdapter, originalAdapter, listenCalls, otherHandlers >>

\* the continuation of a wrapper after `await core.tryHandle(req)`; when
\* the transport it delegates to is itself a wrapper, that wrapper runs up
\* to its own await with the same input
\* a wrapper that warns and calls the original although a route matched
matched_AlsoDelegates(r) ==
    [outcome |-> "handled", status |-> r.status, body |-> r.body,
     calls |-> 1, warns |-> 1, errors |-> 0]

\* `if (result.matched) return result.res` of both wrappers: the response
\* of the route is returned and nothing else is called or logged
matched(r) ==
    [outcome |-> "handled", status |-> r.status, body |-> r.body,
     calls |-> 0, warns |-> 0, errors |-> 0]

\* a dispatch that looks its route up again when the body has been parsed
answering_Current(r, hs) ==
    IF r.sel \in 1..Len(hs) THEN hs[r.sel] ELSE NoHandler

\* match.handler of tryHandle: the route object findHandler returned, held
\* across `await tryJson(req)` whatever happens to the stack hs meanwhile
answering(r, hs) == r.handler

Settle ==
    /\ req.pc = "pending"
    /\ req.depth < MaxDepth
    /\ IF req.sel # 0
       THEN LET r == invoke(answering(req, handlers).fn)
                h == matched(r)
            IN  /\ r.kind # "never"
                /\ r.kind = "timer" => req.elapsed >= r.delay
                /\ req' = [req EXCEPT !.pc = "settled", !.outcome = h.outcome,
                                      !.arg = tryJson(req.sent),
                                      !.status = h.status, !.body = h.body,
                                      !.calls = req.calls + h.calls,
                                      !.warns = req.warns + h.warns,
                                      !.errors = req.errors + h.errors]
       ELSE LET opt == getOptions(req.via, config)
                u == IF req.via.k = "wrap"
                     THEN unhandled(req.via.id, opt, fetchOriginal)
                     ELSE axiosUnhandled(req.via.id, opt, originalAdapter)
                sel == IF req.via.k = "wrap"
                       THEN tryHandle(handlers, origin, req.method, req.input)
                       ELSE tryHandle(handlers, origin, req.method,
                              axiosConfigToRequest(
                                [url |-> req.input, method |-> req.method,
                                 baseURL |-> req.baseURL],
                                req.instanceBaseURL, origin).url)
            IN  IF u.outcome = "original" /\ IsWrapper(u.calledFn)
                THEN req' = [req EXCEPT
                               !.via = u.calledFn,
                               !.depth = req.depth + 1,
                               !.sel = sel,
                               !.handler = IF sel = 0 THEN NoHandler
                                           ELSE handlers[sel],
                               !.warns = req.warns + u.warns,
                               !.errors = req.errors + u.errors]
                ELSE req' = [req EXCEPT
                               !.pc = "settled", !.outcome = u.outcome,
                               !.status = u.status, !.calledFn = u.calledFn,
                               !.calls = u.calls,
                               !.warns = req.warns + u.warns,
                               !.errors = req.errors + u.errors,
                               !.strategy = u.strategy,
                               !.isAxiosError = (req.via.k = "axios"
                                                 /\ u.isAxiosError)]
    /\ thrown' = "none"
    /\ UNCHANGED << handlers, adapters, fetchOriginal, globalFetch, config,
                    initialConfig, configIsInitial, defaultStrategy, listening,
                    origin, originalFetch, fetchAdapterAttached, sessionFetch,
                    instanceAdapter, originalAdapter, listenCalls, otherHandlers >>

\* time passes while a request is pending: one unit elapses
Tick ==
    /\ req.pc = "pending"
    /\ req.elapsed < MaxTime
    /\ req' = [req EXCEPT !.elapsed = req.elapsed + 1]
    /\ thrown' = "none"
    /\ UNCHANGED << handlers, adapters, fetchOriginal, globalFetch, config,
                    initialConfig, configIsInitial, defaultStrategy, listening,
                    origin, originalFetch, fetchAdapterAttached, sessionFetch,
                    instanceAdapter, originalAdapter, listenCalls, otherHandlers >>

\* core.tryHandle(req) called by an adapter with a request whose url is
\* reqUrl, up to the choice of the handler; a thrown resolution error is
\* caught inside and gives { matched: false }
TryHandle(method, reqUrl) ==
    /\ req.pc # "pending"
    /\ LET sel == tryHandle(handlers, origin, method, reqUrl)
       IN  req' = [NoRequest EXCEPT
                     !.pc = IF sel = 0 THEN "settled" ELSE "pending",
                     !.outcome = IF sel = 0 THEN "unmatched" ELSE "",
                     !.method = method, !.input = reqUrl,
                     !.url = toRequestUrl(reqUrl, origin).url,
                     !.sel = sel,
                     !.params = IF sel = 0 THEN << >>
                                ELSE tryHandleParams(handlers, origin, method, reqUrl),
                     !.handler = IF sel = 0 THEN NoHandler ELSE handlers[sel]]
    /\ thrown' = "none"
    /\ UNCHANGED << handlers, adapters, fetchOriginal, globalFetch, config,
                    initialConfig, configIsInitial, defaultStrategy, listening,
                    origin, originalFetch, fetchAdapterAttached, sessionFetch,
                    instanceAdapter, originalAdapter, listenCalls, otherHandlers >>

(***************************************************************************)
(* Inputs and specification                                                *)
(***************************************************************************)
MaxIgnored == 6

ApiTest == Str("https", "api.test", << >>, "")
OtherTest == Str("https", "other.test", << >>, "")

PathA == Str("", "", <<"a">>, "")
AbsA == Str("https", "api.test", <<"a">>, "")
AbsB == Str("https", "api.test", <<"b">>, "")
OtherA == Str("https", "other.test", <<"a">>, "")

ListenOptions == Strategies \cup {Undefined}

\* the calls test code can make, with their arguments drawn from the given
\* sets: methods M, patterns P, handler functions F, listen options L,
\* origin inputs O, request URLs U
Registration(M, P, F) ==
    \/ \E m \in M, p \in P, f \in F :
         /\ Len(handlers) < MaxHandlers
         /\ Use(m, p, f)
    \/ \E m \in M, p \in P, f \in F :
         /\ Len(handlers) < MaxHandlers
         /\ Register(m, p, f)
    \/ ResetHandlers

Requests(M, U) ==
    \/ \E m \in M, u \in U : Fetch(m, u)
    \/ Settle

\* the session lifecycle with a registry of one route
Next ==
    \/ \E o \in ListenOptions : Listen(o)
    \/ Registration({"GET"}, {PathA}, {UserHandler})
    \/ /\ Len(handlers) + Len(IgnoreMethods) <= MaxIgnored
       /\ Ignore(<<PathA>>)
    \/ SetOrigin(ApiTest)
    \/ Close
    \/ \E f \in UserFns : StubFetch(f)
    \/ Requests({"GET"}, {AbsA})

Spec == Init /\ [][Next]_vars

\* registry and dispatch: routes of two methods and three patterns, one
\* session under "bypass", two origins
NextMatch ==
    \/ Listen("bypass")
    \/ Registration({"GET", "POST"}, {PathA, StarPattern, AbsA}, {UserHandler})
    \/ \E i \in {ApiTest, OtherTest} : SetOrigin(i)
    \/ Requests({"GET"}, {AbsA, AbsB, OtherA})

SpecMatch == Init /\ [][NextMatch]_vars

\* adapters: the axios instance, adapter objects attached by listen and by
\* attachAdapter, requests through both transports with an empty registry
MaxAttached == 2

\* an axios request config; params is the serialized query axios appends to
\* the URL it sends ("" when the config has no params)
AxiosConfig(url, method, baseURL, params) ==
    [url |-> url, method |-> method, baseURL |-> baseURL, params |-> params]

\* a new axios instance replaces the one in use once nothing wraps it
NewInstance(f) ==
    /\ instanceAdapter.k # "axios"
    /\ \A a \in AllAdapterIds : originalAdapter[a] = Null
    /\ StubAdapter(f)

\* in this specification test code awaits every request it issues and a
\* behaviour ends with its requests: calls of the API are followed from the
\* states in which no request has been issued yet (the program reaches the
\* same states with or without earlier, settled requests)
Observed == req.pc # "idle"

NextAdapters ==
    \/ \E o \in {"bypass", Undefined}, ad \in {Undefined, Instance} :
         /\ ~ Observed
         /\ Len(adapters) < MaxAttached
         /\ ServerListen(o, ad)
    \/ \E ad \in OwnAdapters :
         /\ ~ Observed
         /\ Len(adapters) < MaxAttached
         /\ AttachAdapter(ad)
    \/ \E ad \in OwnAdapters : (~ Observed /\ DetachAdapter(ad))
    \/ \E f \in {NoAdapter, UserFn(1)} : (~ Observed /\ NewInstance(f))
    \/ (~ Observed /\ Close)
    \/ AxiosRequest(AxiosConfig(AbsA, "get", NullOrigin, ""), NullOrigin)
    \/ Requests({"GET"}, {AbsA})

SpecAdapters == Init /\ [][NextAdapters]_vars

\* both transports against one registry: a session with the fetch wrapper
\* and the wrapped axios instance, routes with relative and absolute
\* patterns, the same URLs requested through fetch and through the instance
AbsAQ == Str("https", "api.test", <<"a">>, "x=1")

AxiosConfigs ==
    { AxiosConfig(AbsA, "get", NullOrigin, ""),
      AxiosConfig(PathA, "get", ApiTest, ""),
      AxiosConfig(PathA, Undefined, OtherTest, ""),
      AxiosConfig(AbsA, "get", NullOrigin, "x=1") }

NextEquiv ==
    \/ (~ listening /\ ServerListen("bypass", Instance))
    \/ Registration({"GET"}, {PathA, AbsA, AbsAQ}, {UserHandler})
    \/ \E i \in {ApiTest, OtherTest} : SetOrigin(i)
    \/ \E c \in AxiosConfigs : AxiosRequest(c, NullOrigin)
    \/ Requests({"GET"}, {AbsA, AbsAQ, OtherA})

SpecEquiv == Init /\ [][NextEquiv]_vars

\* patterns and paths: routes with parameters, trailing slashes, wildcards
\* and absolute URLs, requests through the fetch wrapper and direct calls
\* of tryHandle with a relative URL
MaxRoutes == 2

OnApi(segs) == Str("https", "api.test", segs, "")
Rel(segs) == Str("", "", segs, "")

UsersId == Rel(<<"users", ":id">>)
UsersPat == Rel(<<"users">>)
UsersSlashPat == Rel(<<"users", "">>)
AnalyticsStar == Rel(<<"api", "analytics", "*">>)
AbsUpper == Str("HTTPS", "API.test", <<"a">>, "")

PathPatterns ==
    {UsersId, UsersPat, UsersSlashPat, StarPattern, AnalyticsStar, AbsUpper, AbsAQ}

PathUrls ==
    { OnApi(<<"users", "42">>), OnApi(<<"users", "42", "extra">>),
      OnApi(<<"USERS", "a%20b">>), OnApi(<<"users">>), OnApi(<<"users", "">>),
      OnApi(<<"api", "analytics", "events">>), AbsA, AbsAQ }

RelativeUrls == { Rel(<<"users", "42">>), Rel(<<"a">>) }

NextPaths ==
    \/ (~ Observed /\ Listen("bypass"))
    \/ \E p \in PathPatterns :
         /\ ~ Observed
         /\ Len(handlers) < MaxRoutes
         /\ Use("GET", p, UserHandler)
    \/ \E i \in {ApiTest, OtherTest} : (~ Observed /\ SetOrigin(i))
    \/ Requests({"GET"}, PathUrls)
    \/ Fetch("POST", AbsA)
    \/ \E u \in RelativeUrls : TryHandle("GET", u)

SpecPaths == Init /\ [][NextPaths]_vars

\* the active origin: origin inputs of every shape within a session with
\* one route
OriginInputs ==
    { ApiTest, OtherTest,
      Str("HTTPS", "API.test", << >>, ""),
      Str("https", "api.test", <<"">>, ""),
      AbsA,
      Str("https", "api.test", << >>, "x=1"),
      WithHash(ApiTest, "top"),
      PathA }

NextOrigin ==
    \/ \E o \in {"bypass", Undefined} : Listen(o)
    \/ \E i \in OriginInputs : SetOrigin(i)
    \/ /\ Len(handlers) < MaxRoutes
       /\ Use("GET", PathA, UserHandler)
    \/ ResetHandlers
    \/ Close
    \/ Requests({"GET"}, {AbsA, OtherA})

SpecOrigin == Init /\ [][NextOrigin]_vars

\* delayed responses: fetching handlers with and without a delay and a
\* status, and the passing of time while a request is pending
NextDelay ==
    \/ Listen("bypass")
    \/ \E d \in { Omitted, Given(0), Given(2), Given(-1) },
          st \in { Omitted, Given(202) } :
         /\ Len(handlers) < MaxRoutes
         /\ Fetching("GET", AbsA, d, st)
    \/ Requests({"GET"}, {AbsA, AbsB})
    \/ Tick

SpecDelay == Init /\ [][NextDelay]_vars

\* the event loop runs every timer that is due and every continuation
\* that is ready
FairSpecDelay == SpecDelay /\ WF_vars(Tick) /\ WF_vars(Settle)

\* canned responses: one resolve or reject route of any verb, with and
\* without a status, set up before the requests of any verb are observed
MaxBuilt == 1

Verbs == { IgnoreMethods[k] : k \in 1..Len(IgnoreMethods) }

NextStatus ==
    \/ (~ Observed /\ Listen("bypass"))
    \/ \E m \in Verbs, json \in {"null", "obj"}, st \in {Omitted, Given(204)} :
         /\ ~ Observed
         /\ Len(handlers) < MaxBuilt
         /\ Resolve(m, AbsA, json, st)
    \/ \E m \in Verbs, body \in {Undefined, "obj"}, st \in {Omitted, Given(422)} :
         /\ ~ Observed
         /\ Len(handlers) < MaxBuilt
         /\ Reject(m, AbsA, body, st)
    \/ ResetHandlers
    \/ Requests(Verbs, {AbsA})

SpecStatus == Init /\ [][NextStatus]_vars

\* bulk ignore: lists of one and two paths, routes registered before and
\* after them, requests of every verb
MaxIgnoredStack == 12

MaxOverrides == 1

PathB == Str("", "", <<"b">>, "")

IgnoredLists == { <<PathA>>, <<PathA, PathB>> }

\* the routes of the stack that intercept.ignore did not register
Overrides(hs) == { i \in 1..Len(hs) : hs[i].fn # IgnoreHandler }

NextIgnore ==
    \/ Listen("bypass")
    \/ SetOrigin(ApiTest)
    \/ \E paths \in IgnoredLists :
         /\ Len(handlers) + Len(paths) * Len(IgnoreMethods) <= MaxIgnoredStack
         /\ Ignore(paths)
    \/ \E m \in {"GET", "DELETE"} :
         /\ Cardinality(Overrides(handlers)) < MaxOverrides
         /\ Resolve(m, PathA, "obj", Omitted)
    \/ ResetHandlers
    \/ Requests(Verbs, {AbsA, AbsB})

SpecIgnore == Init /\ [][NextIgnore]_vars

\* request bodies: empty, not JSON, and JSON, sent to routes of two verbs
NextBody ==
    \/ Listen("bypass")
    \/ \E m \in {"POST", "PUT"} :
         /\ Len(handlers) < MaxBuilt
         /\ Use(m, AbsA, UserHandler)
    \/ /\ Len(handlers) < MaxBuilt
       /\ Resolve("POST", AbsA, "obj", Omitted)
    \/ ResetHandlers
    \/ \E m \in {"POST", "PUT"},
          b \in { NoBody, "not json", "{\"ok\":true}" } :
         FetchWith(m, AbsA, b)
    \/ Settle

SpecBody == Init /\ [][NextBody]_vars

\* teardown: adapters attached by listen and by attachAdapter, one of them
\* with a detach that throws, then close
NextTeardown ==
    \/ \E ad \in {Undefined, Instance} :
         /\ Len(adapters) < MaxAttached
         /\ ServerListen("bypass", ad)
    \/ \E ad \in OwnAdapters \cup {ThrowingAdapter} :
         /\ Len(adapters) < MaxAttached
         /\ AttachAdapter(ad)
    \/ /\ Len(handlers) < MaxBuilt
       /\ Use("GET", PathA, UserHandler)
    \/ SetOrigin(ApiTest)
    \/ Close

SpecTeardown == Init /\ [][NextTeardown]_vars

\* two copies of the module: the first listens, registers and closes, the
\* second registers and closes
NextCopies ==
    \/ \E ad \in {Undefined, Instance} :
         /\ Len(adapters) < MaxAttached
         /\ ServerListen("bypass", ad)
    \/ /\ Len(handlers) < MaxBuilt
       /\ Use("GET", AbsA, UserHandler)
    \/ /\ Len(otherHandlers) < MaxBuilt
       /\ UseOther("GET", AbsA, Closure("resolve", "GET", "obj", Omitted, Omitted))
    \/ Close
    \/ CloseOther
    \/ Requests({"GET"}, {AbsA})

SpecCopies == Init /\ [][NextCopies]_vars

\* registrations, resets and closes while a request is in flight
NextSnapshot ==
    \/ Listen("bypass")
    \/ \E st \in {Omitted, Given(404)} :
         /\ Len(handlers) < MaxRoutes
         /\ Resolve("GET", AbsA, "obj", st)
    \/ SetOrigin(ApiTest)
    \/ ResetHandlers
    \/ Close
    \/ Requests({"GET"}, {AbsA, AbsB})

SpecSnapshot == Init /\ [][NextSnapshot]_vars

\* re-pointing the origin: relative routes are registered while the origin
\* is https://api.test, and the origin moves to https://other.test only
\* once a route is registered
NextRebind ==
    \/ Listen("bypass")
    \/ /\ handlers = << >>
       /\ SetOrigin(ApiTest)
    \/ \E m \in {"GET", "POST"} :
         /\ origin = ApiTest
         /\ Len(handlers) < MaxRoutes
         /\ Use(m, PathA, UserHandler)
    \/ /\ handlers # << >>
       /\ SetOrigin(OtherTest)
    \/ Close
    \/ Requests({"GET", "POST"}, {AbsA, OtherA})

SpecRebind == Init /\ [][NextRebind]_vars

\* matched requests through both transports under every kind of option
NextHandled ==
    \/ \E o \in Strategies \cup {"fn:error", Undefined}, ad \in {Undefined, Instance} :
         /\ ~ Observed
         /\ Len(adapters) < MaxAttached
         /\ ServerListen(o, ad)
    \/ /\ ~ Observed
       /\ Len(handlers) < MaxBuilt
       /\ Use("GET", AbsA, UserHandler)
    \/ (~ Observed /\ Close)
    \/ AxiosRequest(AxiosConfig(AbsA, "get", NullOrigin, ""), NullOrigin)
    \/ Requests({"GET"}, {AbsA, AbsB})

SpecHandled == Init /\ [][NextHandled]_vars

\* requests in flight across teardown: every listen passes "bypass" or
\* "warn" and test code leaves globalThis.fetch alone, so a request goes
\* through the wrapper only while a session is listening under one of the
\* two strategies with the original fetch captured
NextInFlight ==
    \/ \E o \in {"bypass", "warn"} : Listen(o)
    \/ /\ Len(handlers) < MaxBuilt
       /\ Use("GET", AbsB, UserHandler)
    \/ Close
    \/ Requests({"GET"}, {AbsA, AbsB})

SpecInFlight == Init /\ [][NextInFlight]_vars

\* the unhandled-request policy: sessions configured with literal
\* strategies and with decision functions, unmatched requests through the
\* fetch wrapper
PolicyOptions == Strategies \cup DecisionFns \cup {Undefined}

NextPolicy ==
    \/ \E o \in PolicyOptions : Listen(o)
    \/ Close
    \/ \E f \in UserFns : StubFetch(f)
    \/ Requests({"GET"}, {AbsA})

SpecPolicy == Init /\ [][NextPolicy]_vars

(***************************************************************************)
(* Matching properties                                                     *)
(***************************************************************************)
\* the step in which the patched fetch hands a request to tryHandle
Dispatch == req.pc # "pending" /\ req'.pc = "pending"

\* handler i is a relative route of the request's method matching its path
RelativeHit(hs, i, r) ==
    /\ hs[i].method = r.method
    /\ ~ isAbsoluteUrl(hs[i].pathPattern)
    /\ matchPattern(compilePattern(hs[i].pathPattern), r.url.segs)

\* handler i is an absolute-URL route of the request's method for its URL
AbsoluteHit(hs, i, r) ==
    /\ hs[i].method = r.method
    /\ isAbsoluteUrl(hs[i].pathPattern)
    /\ normalizeAbsoluteUrl(hs[i].pathPattern) = normalizeAbsoluteUrl(r.url)

\* handlers i < j are two routes with the same method and relative pattern
\* that the request's method and path match, j being the latest such route
SamePatternPair(hs, i, j, r) ==
    /\ i < j
    /\ hs[i].method = hs[j].method
    /\ hs[i].pathPattern = hs[j].pathPattern
    /\ RelativeHit(hs, j, r)
    /\ \A k \in (j + 1)..Len(hs) :
         ~ (hs[k].method = hs[j].method /\ hs[k].pathPattern = hs[j].pathPattern)

\* C1 as stated: with two or more handlers of one method and one relative
\* pattern in the registry, an active origin set and no absolute-URL handler
\* matching, a request of that method whose path matches is answered by the
\* most recently registered of them.
LastWinsAmongSamePattern ==
    [][Dispatch =>
         (\A i, j \in 1..Len(handlers) :
            ( /\ SamePatternPair(handlers, i, j, req')
              /\ origin # NullOrigin
              /\ \A k \in 1..Len(handlers) : ~ AbsoluteHit(handlers, k, req') )
            => req'.sel = j)]_vars

\* C1 amended: for a request to the active origin the answering handler is
\* the most recently registered of them unless a relative handler of the
\* same method registered after them also matches the path, which then
\* answers; it is never an earlier one of them.
LastWinsUnlessShadowed ==
    [][Dispatch =>
         (\A i, j \in 1..Len(handlers) :
            ( /\ SamePatternPair(handlers, i, j, req')
              /\ origin # NullOrigin
              /\ OriginOf(req'.url) = origin
              /\ \A k \in 1..Len(handlers) : ~ AbsoluteHit(handlers, k, req') )
            => /\ req'.sel >= j
               /\ (req'.sel > j => RelativeHit(handlers, req'.sel, req'))
               /\ ((\A k \in (j + 1)..Len(handlers) : ~ RelativeHit(handlers, k, req'))
                    => req'.sel = j))]_vars

\* a request is being answered by the second of two identical routes
LastWinsWitness ==
    /\ req.pc = "pending"
    /\ req.sel = 2
    /\ Len(handlers) = 2
    /\ SamePatternPair(handlers, 1, 2, req)
    /\ req.handler = handlers[2]

\* C2: when an absolute-URL handler of the request's method equals the
\* resolved request URL, the selected handler is the most recently
\* registered such handler, wherever the matching relative and /* handlers
\* stand in the registry.
AbsoluteUrlPriority ==
    [][Dispatch =>
         (\A i \in 1..Len(handlers) :
            AbsoluteHit(handlers, i, req')
            => /\ req'.sel >= i
               /\ AbsoluteHit(handlers, req'.sel, req'))]_vars

\* an absolute-URL route answers although a relative route registered
\* after it matches the path under the active origin
AbsoluteUrlPriorityWitness ==
    /\ req.pc = "pending"
    /\ req.sel # 0
    /\ req.sel <= Len(handlers)
    /\ req.handler = handlers[req.sel]
    /\ AbsoluteHit(handlers, req.sel, req)
    /\ origin = OriginOf(req.url)
    /\ \E k \in (req.sel + 1)..Len(handlers) : RelativeHit(handlers, k, req)

\* C3: when no active origin is set or the request's origin differs from
\* it, no relative handler is selected even if its pattern matches the path:
\* the request is unmatched unless an absolute-URL handler matches.
OriginBoundary ==
    [][Dispatch =>
         ((origin = NullOrigin \/ OriginOf(req'.url) # origin)
          => IF \E i \in 1..Len(handlers) : AbsoluteHit(handlers, i, req')
            THEN req'.sel # 0 /\ AbsoluteHit(handlers, req'.sel, req')
            ELSE req'.sel = 0)]_vars

\* a request to a foreign origin is unmatched although a relative route
\* and /* match its path
OriginBoundaryWitness ==
    /\ req.pc = "pending"
    /\ req.sel = 0
    /\ origin # NullOrigin
    /\ OriginOf(req.url) # origin
    /\ \E i \in 1..Len(handlers) :
         RelativeHit(handlers, i, req) /\ handlers[i].pathPattern = StarPattern
    /\ \E i \in 1..Len(handlers) :
         RelativeHit(handlers, i, req) /\ handlers[i].pathPattern = PathA

(***************************************************************************)
(* Session lifecycle properties                                            *)
(***************************************************************************)
\* C4: the close that ends a session started with a global fetch function
\* in place leaves globalThis.fetch equal to that very function, which is
\* not a wrapper, so later requests reach it directly.
CloseRestoresFetch ==
    [][(Close /\ listening /\ IsFunction(sessionFetch))
         => (globalFetch' = sessionFetch /\ globalFetch'.k = "user")]_vars

\* a session in which requests were intercepted and test code replaced
\* globalThis.fetch has been closed, and the pre-session fetch is back
CloseRestoresFetchWitness ==
    /\ ~ listening
    /\ IsFunction(sessionFetch)
    /\ globalFetch = sessionFetch
    /\ req.pc = "settled"
    /\ req.via.k = "wrap"
    /\ req.outcome = "original"
    /\ req.calledFn = sessionFetch

\* C5: after close the unhandled-request strategy equals the initial
\* default strategy.
StrategyIsDefaultAfterClose == ~ listening => config = defaultStrategy

\* C6: close leaves the registry empty, the origin absent, listening false
\* and no adapter attached, and a second close changes nothing.
CloseClearsSession ==
    /\ [][Close => /\ handlers' = << >>
                   /\ origin' = NullOrigin
                   /\ ~ listening'
                   /\ adapters' = << >>
                   /\ ~ fetchAdapterAttached'
                   /\ \A a \in AdapterIds : fetchOriginal'[a] = Null]_vars
    /\ [](close(close(State)) = close(State))

\* close has ended a session that had routes, an origin and a request
CloseClearsSessionWitness ==
    /\ ~ listening
    /\ IsFunction(sessionFetch)
    /\ handlers = << >>
    /\ origin = NullOrigin
    /\ adapters = << >>
    /\ req.outcome = "handled"
    /\ req.handler.pathPattern = PathA

RegistrationGuard ==
    /\ [][( /\ ~ listening
            /\ \/ \E m \in HttpMethod, p \in {PathA, StarPattern, AbsA} :
                    Use(m, p, UserHandler) \/ Register(m, p, UserHandler)
               \/ Ignore(<<PathA>>) )
          => (thrown' \in {"RegisterBeforeListen", "MustCallListen"}
              /\ handlers' = handlers)]_vars
    /\ [][~ listening => handlers' = << >>]_vars
    /\ [](handlers # << >> => listening)

\* a registration was refused after a close
RegistrationGuardWitness ==
    /\ ~ listening
    /\ IsFunction(sessionFetch)
    /\ thrown \in {"RegisterBeforeListen", "MustCallListen"}
    /\ handlers = << >>

(***************************************************************************)
(* Fetch adapter properties                                                *)
(***************************************************************************)
\* the request in flight is unmatched and its wrapper now applies strategy s
SettlesUnhandled(s) ==
    /\ req.pc = "pending"
    /\ req'.pc = "settled"
    /\ req.sel = 0
    /\ resolveStrategy(config) = s

\* C9: under "error" an unmatched request makes fetch resolve with a
\* synthesized 501 response; the original fetch is not invoked and exactly
\* one error diagnostic is emitted.
ErrorStrategyResolves501 ==
    [][SettlesUnhandled("error")
         => /\ req'.outcome = "synthetic"
            /\ req'.status = 501
            /\ req'.calls = 0
            /\ req'.errors = 1
            /\ req'.warns = 0]_vars

\* C10: under "bypass" an unmatched request settled by a wrapper whose
\* adapter holds the fetch it captured at attach time invokes that fetch
\* exactly once, returns its result and emits no diagnostic.
BypassDelegatesOnce ==
    [][(SettlesUnhandled("bypass") /\ fetchOriginal[req.via.id] # Null)
         => /\ req'.outcome = "original"
            /\ req'.calledFn = fetchOriginal[req.via.id]
            /\ req'.calledFn.k = "user"
            /\ req'.calls = 1
            /\ req'.warns = 0
            /\ req'.errors = 0]_vars

\* an unmatched request was delegated under "bypass" to the fetch that was
\* in place before listen, with routes registered that do not match it
BypassDelegatesOnceWitness ==
    /\ listening
    /\ req.pc = "settled"
    /\ req.via = globalFetch
    /\ req.via.k = "wrap"
    /\ req.sel = 0
    /\ req.strategy = "bypass"
    /\ req.outcome = "original"
    /\ req.calledFn = sessionFetch
    /\ req.calls = 1
    /\ handlers # << >>

\* C11: under "warn" an unmatched request settled by a wrapper whose adapter
\* holds the fetch it captured at attach time has the bypass outcome (that
\* fetch invoked exactly once, its result returned) and exactly one warning
\* diagnostic is emitted for it.
WarnDelegatesAndWarnsOnce ==
    [][(SettlesUnhandled("warn") /\ fetchOriginal[req.via.id] # Null)
         => /\ req'.outcome = "original"
            /\ req'.calledFn = fetchOriginal[req.via.id]
            /\ req'.calledFn.k = "user"
            /\ req'.calls = 1
            /\ req'.warns = 1
            /\ req'.errors = 0]_vars

\* an unmatched request was delegated under "warn" to the fetch that was in
\* place before listen, with one warning written
WarnDelegatesAndWarnsOnceWitness ==
    /\ listening
    /\ req.pc = "settled"
    /\ req.via = globalFetch
    /\ req.via.k = "wrap"
    /\ req.sel = 0
    /\ req.strategy = "warn"
    /\ req.outcome = "original"
    /\ req.calledFn = sessionFetch
    /\ req.calls = 1
    /\ req.warns = 1

\* the fetch adapters in the list of attached adapters
AttachedFetchAdapters ==
    { i \in 1..Len(adapters) : adapters[i].kind = "fetch" }

\* C12: within one session, however many times listen is called, at most
\* one fetch adapter is attached, the fetch it captured is the function that
\* was in place before the session and never a wrapper, a further listen
\* leaves the patch as it is, and an unmatched request through the
\* session's wrapper is delegated to the pre-session fetch exactly once under
\* "bypass" and "warn", with exactly one warning under "warn".
FetchWrappedOncePerSession ==
    /\ [](Cardinality(AttachedFetchAdapters) <= 1)
    /\ [](\A i \in AttachedFetchAdapters :
            /\ fetchOriginal[adapters[i].id].k = "user"
            /\ (IsFunction(sessionFetch)
                 => fetchOriginal[adapters[i].id] = sessionFetch))
    /\ [][(listening /\ fetchAdapterAttached
              /\ \E o \in Strategies \cup {Undefined} : Listen(o))
            => UNCHANGED << adapters, fetchOriginal, globalFetch,
                            originalFetch >>]_vars
    /\ [][(\E s \in {"bypass", "warn"} : SettlesUnhandled(s))
            /\ listening /\ IsFunction(sessionFetch)
            /\ (\E i \in AttachedFetchAdapters : adapters[i].id = req.via.id)
            => /\ req'.calledFn = sessionFetch
               /\ req'.calls = 1
               /\ req'.warns = (IF resolveStrategy(config) = "warn" THEN 1 ELSE 0)]_vars

\* listen was called twice in a session and an unmatched request then went
\* through the single wrapper to the pre-session fetch
FetchWrappedOncePerSessionWitness ==
    /\ listening
    /\ Cardinality(AttachedFetchAdapters) = 1
    /\ listenCalls = 2
    /\ req.pc = "settled"
    /\ req.via = globalFetch
    /\ req.via.k = "wrap"
    /\ req.strategy = "bypass"
    /\ req.calledFn = sessionFetch
    /\ req.calls = 1

(***************************************************************************)
(* Adapter properties                                                      *)
(***************************************************************************)
\* the wrapper the request in flight is in now finds no handler and settles
\* the request in this step
SettlesUnhandledThrough(k) ==
    /\ req.pc = "pending"
    /\ req'.pc = "settled"
    /\ req.sel = 0
    /\ req.via.k = k

\* the strategy the wrapper the request is in resolves
AppliedStrategy == resolveStrategy(getOptions(req.via, config))

\* the adapter object whose wrapper the request is in is in _adapters
ViaAttachedAdapter ==
    \E i \in 1..Len(adapters) :
      /\ adapters[i].id = req.via.id
      /\ adapters[i].kind = (IF req.via.k = "wrap" THEN "fetch" ELSE "axios")

\* C13: a listen call without a strategy leaves the strategy unchanged, a
\* listen call with strategy s makes s the strategy, registry and origin
\* are unchanged by both, and every unmatched request settled through an
\* attached adapter (attached by listen or by attachAdapter) is treated by
\* the strategy in force.
ListenIsMergeable ==
    /\ [][\A ad \in {Undefined, Instance} :
            ServerListen(Undefined, ad)
              => (config' = config /\ UNCHANGED << handlers, origin >>)]_vars
    /\ [][\A s \in Strategies, ad \in {Undefined, Instance} :
            ServerListen(s, ad)
              => (config' = s /\ UNCHANGED << handlers, origin >>)]_vars
    /\ [][(\E k \in {"wrap", "axios"} : SettlesUnhandledThrough(k))
            /\ listening /\ ViaAttachedAdapter
            => req'.strategy = resolveStrategy(config)]_vars

\* only adapter objects created by listen wrap the instance
OnlyListenAttached ==
    /\ \A i \in 1..Len(adapters) : adapters[i].id # OwnAdapter
    /\ originalAdapter[OwnAdapter] = Null
    /\ ~ (instanceAdapter.k = "axios" /\ instanceAdapter.id = OwnAdapter)

\* C14: however often listen is called with the same axios instance, the
\* instance's transport is wrapped once: no attached axios adapter holds a
\* wrapper as its original adapter, and an unmatched request under "warn"
\* writes exactly one warning and invokes the original adapter exactly once.
ListenWrapsInstanceOnce ==
    /\ [](OnlyListenAttached
          => \A i \in 1..Len(adapters) :
               adapters[i].kind = "axios"
                 => originalAdapter[adapters[i].id].k # "axios")
    /\ [][(SettlesUnhandledThrough("axios") /\ OnlyListenAttached
             /\ listening /\ req'.strategy = "warn" /\ req'.outcome = "original")
            => (req'.warns = 1 /\ req'.calls = 1)]_vars

\* adapter object ad was attached by attachAdapter and not detached since
AttachedOnce(ad) == Cardinality({ i \in 1..Len(adapters) : adapters[i] = ad }) = 1

\* C15: attach of an adapter object that is attached changes neither the
\* transport field nor the remembered prior transport, whatever the prior
\* transport was.
AttachWhileAttachedIsNoOp ==
    [][\A ad \in OwnAdapters :
         (AttachedOnce(ad) /\ AttachAdapter(ad))
           => UNCHANGED << fetchOriginal, globalFetch, originalAdapter,
                           instanceAdapter >>]_vars

\* adapter object ad is detached: it is not in _adapters and remembers no
\* prior transport
Detached(ad) ==
    /\ indexOf(adapters, ad) = 0
    /\ (IF ad.kind = "fetch" THEN fetchOriginal[ad.id] ELSE originalAdapter[ad.id]) = Null

\* the patched field of the adapter's kind
TransportField(ad, p) ==
    IF ad.kind = "fetch" THEN p.globalFetch ELSE p.instanceAdapter

\* C16: from any state in which an adapter object is detached, attach
\* followed by detach (directly or through detachAdapter, or through close)
\* leaves the patched field as it was before attach, and detach alone
\* changes nothing.
AttachDetachRestores ==
    \A ad \in OwnAdapters :
      Detached(ad)
        => LET p == Patches(State)
               attached == attachAdapterObject(ad, getConfigs(config), p)
               afterClose == closed([State EXCEPT
                                 !.adapters = Append(adapters, ad),
                                 !.fetchOriginal = attached.fetchOriginal,
                                 !.globalFetch = attached.globalFetch,
                                 !.originalAdapter = attached.originalAdapter,
                                 !.instanceAdapter = attached.instanceAdapter])
           IN  /\ TransportField(ad, detachAdapterObject(ad, attached))
                    = TransportField(ad, p)
               /\ (originalFetch = Null
                     => TransportField(ad, afterClose) = TransportField(ad, p))
               /\ detachAdapterObject(ad, p) = p

\* C17: under "error" an unmatched request through the axios instance is
\* rejected with an axios-shaped error carrying a synthetic 501 response;
\* the original adapter is not invoked.
ClientErrorRejectsWith501 ==
    [][(SettlesUnhandledThrough("axios") /\ AppliedStrategy = "error")
         => /\ req'.outcome = "rejected"
            /\ req'.isAxiosError
            /\ req'.status = 501
            /\ req'.calls = 0]_vars

\* the adapter whose wrapper the request is in holds no original transport
NoOriginalCaptured ==
    (IF req.via.k = "wrap" THEN fetchOriginal[req.via.id]
     ELSE originalAdapter[req.via.id]) = Null

EffectiveURL(config_, instanceBaseURL) ==
    LET base == IF config_.baseURL # NullOrigin THEN config_.baseURL
                ELSE instanceBaseURL
        full == IF config_.url.scheme # "" THEN config_.url
                ELSE Str(base.scheme, base.host,
                         splitPath(base.segs) \o splitPath(config_.url.segs),
                         config_.url.query)
    IN  Str(full.scheme, full.host, full.segs,
            IF config_.params # "" THEN config_.params ELSE full.query)

\* C19: a request through the wrapped axios instance selects the handler
\* the fetch wrapper selects for a fetch of the same method to the URL the
\* client sends, and none when the fetch wrapper finds none.
AdapterEquivalence ==
    [][\A c \in AxiosConfigs :
         (AxiosRequest(c, NullOrigin) /\ instanceAdapter.k = "axios"
            /\ globalFetch.k = "wrap")
           => LET m == toUpperCase(IF c.method = Undefined THEN "get" ELSE c.method)
                  sel == tryHandle(handlers, origin, m,
                                   EffectiveURL(c, NullOrigin))
              IN  /\ req'.sel = sel
                  /\ req'.handler = (IF sel = 0 THEN NoHandler
                                     ELSE handlers[sel])]_vars

\* what the claim says resolveStrategy returns for opt
Resolved(opt) ==
    IF opt \in Strategies THEN opt
    ELSE IF opt \in DecisionFns /\ Returns(opt) \in Strategies THEN Returns(opt)
    ELSE "warn"

\* C20: resolveStrategy returns one of warn, error, bypass for every
\* option: a literal as is, a decision function's return value when it is
\* one of the three and warn otherwise, warn for an undefined option; and
\* the strategy a wrapper applies to an unmatched request is the one so
\* resolved from the configured option.
ResolverYieldsStrategy ==
    /\ [](\A opt \in PolicyOptions :
            /\ resolveStrategy(opt) \in Strategies
            /\ resolveStrategy(opt) = Resolved(opt))
    /\ [][(req.pc = "pending" /\ req'.pc = "settled" /\ req.sel = 0)
            => /\ req'.strategy \in Strategies
               /\ req'.strategy = Resolved(getOptions(req.via, config))]_vars

\* a session configured with a decision function that returns an
\* unrecognized value treated an unmatched request under "warn"
ResolverYieldsStrategyWitness ==
    /\ config \in {"fn:undefined", "fn:other"}
    /\ req.pc = "settled"
    /\ req.via.k = "wrap"
    /\ req.sel = 0
    /\ req.strategy = "warn"
    /\ req.warns = 1

(***************************************************************************)
(* Pattern properties                                                      *)
(***************************************************************************)
\* C21: tryHandle called with a relative request URL while no origin is
\* active returns not-matched, throws nothing and invokes no handler,
\* whatever the registry holds.
RelativeWithoutOriginIsUnmatched ==
    [][\A u \in RelativeUrls :
         (TryHandle("GET", u) /\ origin = NullOrigin)
           => /\ req'.sel = 0
              /\ req'.outcome = "unmatched"
              /\ req'.handler = NoHandler
              /\ thrown' = "none"]_vars

\* tryHandle answered not-matched for a relative URL with routes registered,
\* among them the wildcard, and no origin active
RelativeWithoutOriginIsUnmatchedWitness ==
    /\ origin = NullOrigin
    /\ \E i \in 1..Len(handlers) : handlers[i].pathPattern = StarPattern
    /\ req.pc = "settled"
    /\ req.outcome = "unmatched"
    /\ req.input \in RelativeUrls

\* the relative, non-wildcard patterns of the routes
IsPlainPattern(pattern) ==
    /\ ~ isAbsoluteUrl(pattern)
    /\ pattern # StarPattern
    /\ splitPath(pattern.segs) # << >>

IsParamSegment(seg) == seg \in {":id", ":x"}

\* request paths written without repeated or trailing slashes
NormalPaths == { u.segs : u \in { v \in PathUrls : splitPath(v.segs) = v.segs } }

\* segment by segment: as many segments, literals equal ignoring case,
\* every :name segment facing one non-empty segment
SegmentwiseMatch(pattern, path) ==
    LET ps == splitPath(pattern.segs)
    IN  /\ Len(ps) = Len(path)
        /\ \A i \in 1..Len(ps) :
             IF IsParamSegment(ps[i]) THEN path[i] # ""
             ELSE toLowerCase(ps[i]) = toLowerCase(path[i])

\* the named parameters bound to the (decoded) segments they face
BoundParams(pattern, path) ==
    LET ps == splitPath(pattern.segs)
        at == { i \in 1..Len(ps) : IsParamSegment(ps[i]) }
    IN  [k \in { slice1(ps[i]) : i \in at } |->
           << decodeURIComponent(path[CHOOSE i \in at : slice1(ps[i]) = k]) >>]

\* this step dispatches a request: tryHandle has chosen its handler
Dispatched ==
    /\ req.pc # "pending"
    /\ req'.pc = "pending" \/ req'.outcome = "unmatched"

\* C22: a non-wildcard pattern matches a request path iff both have the
\* same number of segments, literals are equal ignoring case and every
\* :name segment faces one non-empty segment; the handler selected for such
\* a pattern receives exactly the named parameters bound to those segments
\* (decoded as URI components).
PatternMatchesSegmentwise ==
    /\ [][\A i \in 1..Len(handlers'), path \in NormalPaths :
            IsPlainPattern(handlers'[i].pathPattern)
              => (matchPattern(handlers'[i].compiled, path)
                    <=> SegmentwiseMatch(handlers'[i].pathPattern, path))]_vars
    /\ [][Dispatched
            /\ req'.sel # 0 /\ IsPlainPattern(req'.handler.pathPattern)
            /\ req'.url.segs \in NormalPaths
            => req'.params = BoundParams(req'.handler.pathPattern,
                                         req'.url.segs)]_vars

\* /users/:id answered /users/42 with { id: "42" } while /users/42/extra,
\* requested next, would find no route
PatternMatchesSegmentwiseWitness ==
    /\ req.pc = "settled"
    /\ req.outcome = "handled"
    /\ req.handler.pathPattern = UsersId
    /\ req.url = OnApi(<<"users", "42">>)
    /\ req.params = [id |-> << "42" >>]
    /\ tryHandle(handlers, origin, "GET", OnApi(<<"users", "42", "extra">>)) = 0

\* a path with repeated slashes collapsed and one trailing slash stripped,
\* the root kept
NormalizedPath(path) ==
    IF splitPath(path) = << >> THEN << "" >> ELSE splitPath(path)

\* some relative route of the method matches the normalized path
SomeRouteMatchesNormalized(hs, method, path) ==
    \E i \in 1..Len(hs) :
      /\ hs[i].method = method
      /\ ~ isAbsoluteUrl(hs[i].pathPattern)
      /\ \/ hs[i].pathPattern = StarPattern
         \/ /\ IsPlainPattern(hs[i].pathPattern)
            /\ SegmentwiseMatch(hs[i].pathPattern, NormalizedPath(path))

\* the request dispatched in this step is to the active origin and no
\* absolute-URL route answers it
ReachesRelativePass ==
    /\ Dispatched
    /\ origin # NullOrigin
    /\ OriginOf(req'.url) = origin
    /\ AbsoluteMatches(handlers, req'.method, req'.url) = {}

\* C23: pattern and request path match iff their normalized forms match:
\* a request to the active origin is matched by the relative routes iff one
\* of them matches the normalized request path (/users matches /users/ and
\* /users/ matches /users).
TrailingSlashNormalized ==
    [][ReachesRelativePass
         => (req'.sel # 0
               <=> SomeRouteMatchesNormalized(handlers, req'.method,
                                              req'.url.segs))]_vars

\* the relative routes of the method whose pattern matches the path, the
\* wildcard matching every path
MatchingRoutes(hs, method, path) ==
    { i \in 1..Len(hs) :
        /\ hs[i].method = method
        /\ ~ isAbsoluteUrl(hs[i].pathPattern)
        /\ \/ hs[i].pathPattern = StarPattern
           \/ /\ IsPlainPattern(hs[i].pathPattern)
              /\ SegmentwiseMatch(hs[i].pathPattern, path) }

\* C24: for a request to the active origin that no absolute-URL route
\* answers, the most recently registered of the relative routes of its
\* method whose pattern matches the path is selected, /* matching every
\* path: a later /* shadows a specific pattern and a later specific
\* pattern wins over /* for its own paths.
WildcardUnderLastWins ==
    [][(ReachesRelativePass /\ req'.url.segs \in NormalPaths)
         => LET ms == MatchingRoutes(handlers, req'.method, req'.url.segs)
            IN  /\ ms # {} => req'.sel = Max(ms)
                /\ ms = {} => req'.sel = 0
                /\ (\E i \in 1..Len(handlers) :
                      /\ handlers[i].method = req'.method
                      /\ handlers[i].pathPattern = StarPattern)
                     => req'.sel # 0]_vars

\* /users/:id registered after /* answered /users/42, and /* still answers
\* the other paths
WildcardUnderLastWinsWitness ==
    /\ Len(handlers) = 2
    /\ handlers[1].pathPattern = StarPattern
    /\ handlers[2].pathPattern = UsersId
    /\ origin = ApiTest
    /\ req.pc = "settled"
    /\ req.outcome = "handled"
    /\ req.url = OnApi(<<"users", "42">>)
    /\ req.sel = 2
    /\ tryHandle(handlers, origin, "GET", OnApi(<<"users">>)) = 1

\* C25: a pattern made of a literal prefix and a trailing wildcard segment
\* matches every request path under the prefix: with /api/analytics/*
\* registered for the method, a request to /api/analytics/events on the
\* active origin is matched.
PrefixWildcardMatchesBelow ==
    [][(ReachesRelativePass
          /\ req'.url.segs = <<"api", "analytics", "events">>
          /\ \E i \in 1..Len(handlers) :
               /\ handlers[i].method = req'.method
               /\ handlers[i].pathPattern = AnalyticsStar)
         => req'.sel # 0]_vars

\* the path of a URL as serialized: the empty path is "/"
SerializedPath(url) == IF url.segs = << >> THEN << "" >> ELSE url.segs

\* scheme and host equal ignoring case, path and query equal exactly
SameAbsoluteUrl(pattern, url) ==
    /\ toLowerCase(pattern.scheme) = toLowerCase(url.scheme)
    /\ toLowerCase(pattern.host) = toLowerCase(url.host)
    /\ SerializedPath(pattern) = SerializedPath(url)
    /\ pattern.query = url.query

\* the absolute-URL routes of the method whose URL is the request's
AbsoluteRoutes(hs, method, url) ==
    { i \in 1..Len(hs) :
        /\ hs[i].method = method
        /\ isAbsoluteUrl(hs[i].pathPattern)
        /\ SameAbsoluteUrl(hs[i].pathPattern, url) }

\* C26: an absolute-URL route is selected iff its method is the request's
\* and its URL equals the request URL, scheme and host compared ignoring
\* case, path and query exactly (the most recent of several), whatever the
\* active origin; a request that differs from the route in its query only
\* is not answered by it, and when no route answers it the request is
\* treated by the unhandled-request strategy.
AbsoluteRouteSelectedOnEqualUrl ==
    /\ [][Dispatched
            => LET as == AbsoluteRoutes(handlers, req'.method, req'.url)
               IN  /\ as # {} => req'.sel = Max(as)
                   /\ as = {}
                        => (req'.sel = 0
                              \/ ~ isAbsoluteUrl(req'.handler.pathPattern))]_vars
    /\ [][(req.pc = "pending" /\ req'.pc = "settled" /\ req.sel = 0
             /\ req.via.k = "wrap")
            => req'.strategy = resolveStrategy(config)]_vars

\* a route for the URL with a query is registered, a request for the same
\* URL without the query went unmatched and was passed through under
\* "bypass", with an origin of another host active
AbsoluteRouteSelectedOnEqualUrlWitness ==
    /\ \E i \in 1..Len(handlers) : handlers[i].pathPattern = AbsAQ
    /\ origin = OtherTest
    /\ tryHandle(handlers, origin, "GET", AbsAQ) # 0
    /\ req.pc = "settled"
    /\ req.method = "GET"
    /\ req.url = AbsA
    /\ req.sel = 0
    /\ req.strategy = "bypass"
    /\ req.outcome = "original"

(***************************************************************************)
(* Origin properties                                                       *)
(***************************************************************************)
\* the input parses as a URL with empty or root path, no query, no fragment
IsOriginInput(input) ==
    /\ input.scheme # ""
    /\ input.segs \in { << >>, << "" >> }
    /\ input.query = ""
    /\ hashOf(input) = ""

\* scheme and host of the input in lowercase
LowercaseOrigin(input) ==
    Str(toLowerCase(input.scheme), toLowerCase(input.host), << >>, "")

\* absent, or a lowercase origin without path, query or fragment
IsNormalizedOrigin(o) ==
    \/ o = NullOrigin
    \/ /\ o.scheme # "" /\ o.host # ""
       /\ toLowerCase(o.scheme) = o.scheme
       /\ toLowerCase(o.host) = o.host
       /\ o.segs = << >>
       /\ o.query = ""
       /\ hashOf(o) = ""

PendingOnDelay ==
    /\ req.pc = "pending"
    /\ req.sel # 0
    /\ req.handler.fn.builder = "fetching"
    /\ req.handler.fn.delayMs.given

\* C28: a request matched by a fetching handler configured with delayMs = N
\* stays pending at every instant before N time units have elapsed since
\* dispatch and settles, once N has elapsed, with the configured status
\* (default 204) and an empty body.
DelayedResponseSettlesAfterDelay ==
    /\ [][(PendingOnDelay /\ req'.pc # "pending")
            => /\ req.elapsed >= req.handler.fn.delayMs.value
               /\ req'.pc = "settled"
               /\ req'.outcome = "handled"
               /\ req'.status = (IF req.handler.fn.status.given
                                 THEN req.handler.fn.status.value ELSE 204)
               /\ req'.body = NoBody]_vars
    /\ (PendingOnDelay ~> req.pc = "settled")

\* a request answered by a fetching handler with delayMs = 2 and no status
\* has settled with 204 after two units
DelayedResponseSettlesAfterDelayWitness ==
    /\ req.pc = "settled"
    /\ req.sel # 0
    /\ req.handler.fn = Closure("fetching", "GET", "", Omitted, Given(2))
    /\ req.elapsed = 2
    /\ req.status = 204

\* the default statuses by verb
VerbDefault(method) ==
    CASE method \in {"GET", "PUT", "PATCH", "OPTIONS"} -> 200
      [] method = "POST" -> 201
      [] method = "DELETE" -> 204

\* the request is pending on a route built by resolve or reject
PendingOnCanned ==
    /\ req.pc = "pending"
    /\ req.sel # 0
    /\ req.handler.fn.builder \in {"resolve", "reject"}

\* C29: a matched request is answered with the handler's configured status
\* or, when none is configured, the verb's default (GET/PUT/PATCH/OPTIONS
\* 200, POST 201, DELETE 204; reject 400); whenever the resulting status of
\* a resolve is 204 the response has no body, whatever body was supplied.
AnsweredWithConfiguredOrDefaultStatus ==
    [][(PendingOnCanned /\ req'.pc # "pending")
         => /\ req'.pc = "settled"
            /\ req'.outcome = "handled"
            /\ req'.status =
                 (IF req.handler.fn.status.given
                  THEN req.handler.fn.status.value
                  ELSE IF req.handler.fn.builder = "reject" THEN 400
                  ELSE VerbDefault(req.method))
            /\ (req.handler.fn.builder = "resolve" /\ req'.status = 204)
                 => req'.body = NoBody]_vars

\* a DELETE answered by resolve({..}) without a status: 204 and no body
AnsweredWithConfiguredOrDefaultStatusWitness ==
    /\ req.pc = "settled"
    /\ req.sel # 0
    /\ req.handler.fn = Closure("resolve", "DELETE", "obj", Omitted, Omitted)
    /\ req.status = 204
    /\ req.body = NoBody

\* the response of a route is 204 without a body
AnswersNoContent(fn) ==
    /\ invoke(fn).kind = "response"
    /\ invoke(fn).status = 204
    /\ invoke(fn).body = NoBody

\* routes of the stack with this verb and exactly this path as pattern
RoutesFor(hs, method, url) ==
    { i \in 1..Len(hs) :
        /\ hs[i].method = method
        /\ hs[i].pathPattern = Str("", "", url.segs, "") }

\* C30: ignore(paths) appends, for each given pattern, one 204 no-body
\* handler for each of the six verbs (|paths| x 6 handlers, in order);
\* afterwards a request with any of those verbs to an ignored path gets 204
\* without delegation, and a handler registered later for the same verb and
\* path overrides the ignore handler.
IgnoreRegistersNoContentRoutes ==
    /\ [][\A paths \in IgnoredLists :
            (listening /\ Ignore(paths))
              => /\ Len(handlers') = Len(handlers) + Len(paths) * 6
                 /\ SubSeq(handlers', 1, Len(handlers)) = handlers
                 /\ \A k \in 1..(Len(paths) * 6) :
                      LET h == handlers'[Len(handlers) + k]
                      IN  /\ h.method = IgnoreMethods[((k - 1) % 6) + 1]
                          /\ h.pathPattern = paths[((k - 1) \div 6) + 1]
                          /\ AnswersNoContent(h.fn)]_vars
    /\ [][(/\ req.pc # "pending" /\ req'.pc = "pending"
           /\ origin # NullOrigin
           /\ OriginOf(req'.url) = OriginOf(origin)
           /\ RoutesFor(handlers, req'.method, req'.url) # {})
            => req'.sel = Max(RoutesFor(handlers, req'.method, req'.url))]_vars
    /\ [][(/\ req.pc = "pending" /\ req.sel # 0
           /\ req.handler.fn = IgnoreHandler
           /\ req'.pc # "pending")
            => /\ req'.pc = "settled"
               /\ req'.outcome = "handled"
               /\ req'.status = 204
               /\ req'.body = NoBody
               /\ req'.calls = 0]_vars

\* a GET to an ignored path was answered by the route registered after
\* the ignore, and a POST to an ignored path with 204
IgnoreRegistersNoContentRoutesWitness ==
    /\ req.pc = "settled"
    /\ req.outcome = "handled"
    /\ req.method = "GET"
    /\ req.sel = 7
    /\ handlers[1].fn = IgnoreHandler
    /\ handlers[1].method = "GET"
    /\ handlers[1].pathPattern = handlers[7].pathPattern
    /\ req.handler.fn.builder = "resolve"
    /\ req.status = 200

(***************************************************************************)
(* Dispatch properties                                                     *)
(***************************************************************************)
\* C31: body parsing never fails a dispatch: when a request matches a
\* handler and its body is empty or not valid JSON, tryHandle still invokes
\* the handler, with body absent, and returns matched; no parsing error
\* reaches the caller.
UnparsableBodyIsAbsent ==
    [][(/\ req.pc = "pending" /\ req.sel # 0
        /\ req.sent \in {NoBody, "not json"}
        /\ req'.pc # "pending")
         => /\ req'.pc = "settled"
            /\ req'.outcome = "handled"
            /\ req'.arg = Undefined
            /\ thrown' = "none"]_vars

\* a POST with a body that is not JSON was answered by its route
UnparsableBodyIsAbsentWitness ==
    /\ req.pc = "settled"
    /\ req.outcome = "handled"
    /\ req.sent = "not json"
    /\ req.arg = Undefined
    /\ req.handler.fn = UserHandler

\* positions of the attached adapters of this kind that captured a transport
Capturing(kind, captured) ==
    { i \in 1..Len(adapters) :
        adapters[i].kind = kind /\ captured[adapters[i].id] # Null }

\* the first of a non-empty set of positions
First(S) == CHOOSE i \in S : \A j \in S : i <= j

\* C32: best-effort teardown: close visits the attached adapters in reverse
\* attachment order, and if the detach of any adapter throws, close still
\* detaches all remaining adapters, restores the captured fetch, clears
\* registry and origin, sets listening false, and does not throw.
CloseSurvivesThrowingDetach ==
    [][(Close /\ \E i \in 1..Len(adapters) : detachThrows(adapters[i]))
         => /\ thrown' = "none"
            /\ ~ listening'
            /\ adapters' = << >>
            /\ handlers' = << >>
            /\ origin' = NullOrigin
            /\ \A i \in 1..Len(adapters) :
                 /\ adapters[i].kind = "fetch"
                      => fetchOriginal'[adapters[i].id] = Null
                 /\ adapters[i].kind = "axios"
                      => originalAdapter'[adapters[i].id] = Null
            /\ originalFetch # Null
                 => globalFetch' = originalFetch /\ originalFetch' = Null
            /\ (originalFetch = Null /\ Capturing("fetch", fetchOriginal) # {})
                 => globalFetch' =
                      fetchOriginal[adapters[First(Capturing("fetch", fetchOriginal))].id]
            /\ Capturing("axios", originalAdapter) # {}
                 => instanceAdapter' =
                      originalAdapter[adapters[First(Capturing("axios", originalAdapter))].id]]_vars

\* a session was closed whose last-attached adapter throws on detach: the
\* fetch in place before the session is back and nothing is captured
CloseSurvivesThrowingDetachWitness ==
    /\ ~ listening
    /\ adapters = << >>
    /\ globalFetch = UserFn(1)
    /\ sessionFetch = UserFn(1)
    /\ \A a \in AllAdapterIds : fetchOriginal[a] = Null
    /\ thrown = "none"
    /\ listenCalls = 0
    /\ originalFetch = Null

\* C33: no split-brain across module copies: with two independently loaded
\* copies of the module sharing the process-wide store, after copy A calls
\* listen, a handler registered through copy B is accepted and is the one
\* used to answer matching requests made through the patched global fetch,
\* and close called through either copy detaches every adapter attached
\* through the other.
CopiesCoordinate ==
    /\ [][(/\ listening
           /\ otherHandlers' # otherHandlers
           /\ otherHandlers' # << >>)
            => thrown' = "none"]_vars
    /\ [][(/\ req.pc # "pending" /\ req'.pc = "pending"
           /\ handlers = << >>
           /\ AbsoluteMatches(otherHandlers, req'.method, req'.url) # {})
            => /\ req'.sel # 0
               /\ req'.handler = otherHandlers[req'.sel]]_vars
    /\ [][CloseOther
            => /\ \A i \in 1..Len(adapters) :
                    /\ adapters[i].kind = "fetch"
                         => fetchOriginal'[adapters[i].id] = Null
                    /\ adapters[i].kind = "axios"
                         => originalAdapter'[adapters[i].id] = Null
               /\ ~ IsWrapper(instanceAdapter')]_vars

\* the route is for this verb and, as an absolute URL, for this URL
IsRouteFor(h, method, url) ==
    /\ h.method = method
    /\ h.pathPattern = url

\* C34: dispatch snapshot: the handler answering a request is chosen
\* against the registry contents at the moment tryHandle is invoked; a
\* handler registered after that moment never answers that request, every
\* request dispatched after a registration completes sees it, and a reset
\* or close after selection does not stop the selected handler from
\* answering.
DispatchSnapshot ==
    /\ [][(req.pc # "pending" /\ req'.pc = "pending")
            => /\ req'.sel # 0 => req'.handler = handlers[req'.sel]
               /\ (handlers # << >>
                     /\ IsRouteFor(handlers[Len(handlers)], req'.method, req'.url))
                    => req'.sel = Len(handlers)]_vars
    /\ [][(req.pc = "pending" /\ req.sel # 0)
            => IF req'.pc = "pending"
               THEN req'.sel = req.sel /\ req'.handler = req.handler
               ELSE /\ req'.pc = "settled"
                    /\ req'.outcome = "handled"
                    /\ req'.handler = req.handler
                    /\ req'.status = invoke(req.handler.fn).status
                    /\ req'.body = invoke(req.handler.fn).body]_vars

\* a request answered 200 by the route selected for it, although the route
\* was removed and one answering 404 put at its place meanwhile
DispatchSnapshotWitness ==
    /\ req.pc = "settled"
    /\ req.outcome = "handled"
    /\ req.sel = 1
    /\ req.status = 200
    /\ Len(handlers) = 1
    /\ handlers[1].fn.status = Given(404)

\* C35: client adapter without an original adapter: for an instance that
\* had no adapter at attach time, an unmatched request under warn or bypass
\* is rejected with a client-shaped error (isAxiosError true) carrying a
\* synthetic 500 response; under warn exactly one warning is emitted, under
\* bypass no diagnostic is emitted.
ClientWithoutOriginalRejects500 ==
    [][(/\ SettlesUnhandledThrough("axios")
        /\ originalAdapter[req.via.id] = Null
        /\ AppliedStrategy \in {"warn", "bypass"})
         => /\ req'.outcome = "rejected"
            /\ req'.isAxiosError
            /\ req'.status = 500
            /\ req'.calls = 0
            /\ req'.errors = req.errors
            /\ req'.warns = (IF AppliedStrategy = "warn" THEN req.warns + 1
                             ELSE req.warns)]_vars

\* a request through an instance without an adapter was rejected under
\* "warn" with the client-shaped error, after one warning
ClientWithoutOriginalRejects500Witness ==
    /\ req.pc = "settled"
    /\ req.via.k = "axios"
    /\ req.depth = 0
    /\ req.strategy = "warn"
    /\ req.outcome = "rejected"
    /\ req.isAxiosError
    /\ req.status = 500
    /\ req.warns = 1
    /\ req.errors = 0

\* C36: registry discipline: the registry changes only by register
\* appending exactly one handler at the end (existing entries and their
\* order untouched, duplicates allowed) and by reset/close clearing it;
\* dispatching any number of requests (matched or not) leaves registry,
\* active origin, strategy and listening unchanged, so a handler answers
\* every later matching request and is never consumed.
RegistryDiscipline ==
    /\ [][\A st \in {Omitted, Given(404)} :
            (listening /\ Resolve("GET", AbsA, "obj", st))
              => /\ Len(handlers') = Len(handlers) + 1
                 /\ SubSeq(handlers', 1, Len(handlers)) = handlers
                 /\ handlers'[Len(handlers')].method = "GET"
                 /\ handlers'[Len(handlers')].pathPattern = AbsA
                 /\ handlers'[Len(handlers')].fn.status = st]_vars
    /\ [][handlers' # handlers
            => \/ /\ handlers' = << >>
                  /\ req' = req
               \/ /\ Len(handlers') = Len(handlers) + 1
                  /\ SubSeq(handlers', 1, Len(handlers)) = handlers
                  /\ req' = req]_vars
    /\ [][req' # req
            => UNCHANGED << handlers, origin, config, listening >>]_vars

\* the registry holds one route twice; the later copy answered a request
\* and both are still there
RegistryDisciplineWitness ==
    /\ Len(handlers) = 2
    /\ handlers[1] = handlers[2]
    /\ req.pc = "settled"
    /\ req.outcome = "handled"
    /\ req.sel = 2
    /\ req.handler = handlers[2]

\* the registry holds a relative route for the verb and the path of the
\* request being dispatched
HasRelativeRoute ==
    \E i \in 1..Len(handlers) :
       /\ handlers[i].method = req'.method
       /\ handlers[i].pathPattern = Str("", "", req'.url.segs, "")

\* C37: relative handlers are bound to the origin active at dispatch time,
\* not at registration time: after setOrigin(B), a relative handler
\* registered while origin A was active answers matching requests to B and
\* no longer answers requests to A.
RelativeRoutesFollowOrigin ==
    [][(/\ req.pc # "pending" /\ req'.pc = "pending"
        /\ HasRelativeRoute)
         => IF origin # NullOrigin /\ OriginOf(req'.url) = OriginOf(origin)
            THEN /\ req'.sel # 0
                 /\ handlers[req'.sel].method = req'.method
                 /\ handlers[req'.sel].pathPattern = Str("", "", req'.url.segs, "")
            ELSE req'.sel = 0]_vars

\* the origin is https://other.test and a request to it was answered by a
\* relative route
RelativeRoutesFollowOriginWitness ==
    /\ origin = OtherTest
    /\ req.pc = "settled"
    /\ req.outcome = "handled"
    /\ req.url = OtherA
    /\ req.handler.pathPattern = PathA

\* C38: for a request that matches a handler, on either adapter and under
\* every strategy, the original transport (captured fetch or original
\* client adapter) is never invoked, the strategy decision function is
\* never called, and no unhandled-request diagnostic is emitted.
MatchedNeverDelegates ==
    [][(req.pc = "pending" /\ req.sel # 0 /\ req'.pc # "pending")
         => /\ req'.outcome = "handled"
            /\ req'.calls = req.calls
            /\ req'.calledFn = req.calledFn
            /\ req'.strategy = req.strategy
            /\ req'.warns = req.warns
            /\ req'.errors = req.errors]_vars

\* a request through the axios instance under a decision function was
\* answered by its route: nothing called, resolved or logged
MatchedNeverDelegatesWitness ==
    /\ req.pc = "settled"
    /\ req.via.k = "axios"
    /\ req.outcome = "handled"
    /\ config = "fn:error"
    /\ req.calls = 0
    /\ req.calledFn = NoFetch
    /\ req.strategy = ""
    /\ req.warns = 0
    /\ req.errors = 0

(***************************************************************************)
(* Session properties                                                      *)
(***************************************************************************)
\* C39: interception holds after every listen: in every state reached
\* right after a listen call in an environment that has a global fetch,
\* calls through global fetch are routed to the dispatcher, including when
\* test code reassigned globalThis.fetch between two listen calls of the
\* same session, and the fetch that test code installed before that listen
\* is the one used for passthrough and the one left in place by close.
ListenAlwaysIntercepts ==
    [][(listenCalls' > listenCalls /\ IsFunction(globalFetch))
         => /\ globalFetch'.k = "wrap"
            /\ globalFetch.k = "user"
                 => /\ fetchOriginal'[globalFetch'.id] = globalFetch
                    /\ originalFetch' = globalFetch]_vars

\* a request was issued through the wrapper while the session listened
\* under "bypass" or "warn" with the original fetch captured
IssuedThroughSession ==
    /\ req.pc # "pending"
    /\ req'.pc = "pending"
    /\ req'.via.k = "wrap"

\* C40: in-flight requests across teardown: an unmatched request issued
\* through the patched fetch while a session with a captured original fetch
\* is listening under bypass or warn is delegated to that original fetch
\* and returns its result, even when close (or a strategy change) runs
\* between the request being issued and its dispatch completing; it never
\* ends in the synthetic 'no original fetch' 500 response.
InFlightIsDelegated ==
    /\ [][IssuedThroughSession
            => /\ listening
               /\ resolveStrategy(config) \in {"bypass", "warn"}
               /\ fetchOriginal[req'.via.id].k = "user"]_vars
    /\ [][SettlesUnhandledThrough("wrap")
            => /\ req'.outcome = "original"
               /\ req'.calledFn.k = "user"
               /\ req'.calls = 1
               /\ req'.status # 500]_vars

====
